---- MODULE Spec2Model ----
(***************************************************************************)
(* A model of the authorization core of cog2/gort:                         *)
(*   - the in-memory token store (dataaccess/memory/token-access.go),      *)
(*     once with every call atomic (Spec) and once with TokenGenerate      *)
(*     calls interleaved at the level of single map reads and writes       *)
(*     (SpecConc);                                                         *)
(*   - the rule evaluator (rules/rule.go): Rule.Matches and Rule.Allowed   *)
(*     as pure functions of a rule and their input (SpecRule);             *)
(*   - the rule parser (rules.Parse, ParseExpression) applied to rule      *)
(*     tokens (SpecRuleParse) and to single conditions (SpecExpr);         *)
(*   - the command parser (command/command.go): command.Parse applied to   *)
(*     a token list under the parse options (SpecCmd), and                 *)
(*     CommandParameters.String applied to a parameter list (SpecString);  *)
(*   - the in-memory role store (dataaccess/memory/role-access.go), once   *)
(*     with every call atomic (SpecRole) and once with two grants          *)
(*     interleaved at the read and the write of the permission list        *)
(*     (SpecRoleConc);                                                     *)
(*   - the in-memory group store, as the specification and                 *)
(*     group-access_test.go describe it: the users of a group (SpecGroup)  *)
(*     and the roles of a group (SpecGroupRole).                           *)
(***************************************************************************)
EXTENDS Integers, Sequences, FiniteSets, TLC

VARIABLES
    users,          \* da.users: the usernames of the user store
    tokensByUser,   \* token-access.go:29, key = username
    tokensByValue,  \* token-access.go:30, key = token string
    now,            \* the clock read by time.Now()
    issued,         \* history: the token strings handed out, each with its user
    latest,         \* history: per user, the token of the last call on that user
    last,           \* the most recent call and what it returned
    procs,          \* SpecConc: each goroutine's position and locals
    rule,           \* SpecRule: the Rule under evaluation
    env,            \* SpecRule: the EvaluationEnvironment
    permissions,    \* SpecRule: the acting user's permission list
    out,            \* SpecRule: the most recent evaluation and its result
    rt,             \* SpecRuleParse: the RuleTokens given to rules.Parse
    parsed,         \* SpecRuleParse: what rules.Parse returned
    expr,           \* SpecExpr: the condition given to ParseExpression
    pex,            \* SpecExpr: what ParseExpression returned
    tokens,         \* SpecCmd: the token list given to command.Parse
    po,             \* SpecCmd: the parseOptions of that call
    cmd,            \* SpecCmd: what command.Parse returned
    params,         \* SpecString: the CommandParameters given to String
    rendered,       \* SpecString: what String returned
    roles,          \* da.roles: the roles of the store, key = role name
    granted,        \* history: per role, the pairs granted and not revoked since
    rlast,          \* the most recent call on the role store and what it returned
    rprocs,         \* SpecRoleConc: each goroutine's position and locals
    groups,         \* da.groups: the groups of the store, key = group name
    glast           \* the most recent call on the group store and what it returned

tokVars  == <<users, tokensByUser, tokensByValue, now, issued, latest, last>>
concVars == <<procs>>
ruleVars == <<rule, env, permissions, out>>
parseVars == <<rt, parsed, expr, pex, tokens, po, cmd>>
strVars   == <<params, rendered>>
roleVars  == <<roles, granted, rlast, rprocs>>
groupVars == <<groups, glast>>
vars     == <<users, tokensByUser, tokensByValue, now, issued, latest, last,
              procs, rule, env, permissions, out,
              rt, parsed, expr, pex, tokens, po, cmd,
              params, rendered, roles, granted, rlast, rprocs, groups, glast>>

----------------------------------------------------------------------------
(* Bounds of the model *)

\* number of distinct token strings the random source can hand out
MaxTokens == 3

\* the clock runs from 0 to MaxTime
MaxTime == 1

Usernames   == {"alice", "bob"}
TokenValues == 1..MaxTokens
\* the durations passed to TokenGenerate: none at all, and one clock step
Durations   == {0, 1}

----------------------------------------------------------------------------
(* Errors and values *)

Nil            == "nil"
ErrNoSuchUser  == "ErrNoSuchUser"
ErrNoSuchToken == "ErrNoSuchToken"
ErrRandom      == "ErrRandom"

\* rest.Token{}: the zero token returned next to an error
ZeroToken ==
    [Duration |-> 0, Token |-> 0, User |-> "", ValidFrom |-> 0, ValidUntil |-> 0]

\* Go map operations
MapDelete(m, k) == [x \in DOMAIN m \ {k} |-> m[x]]
MapPut(m, k, v) == [x \in DOMAIN m \cup {k} |-> IF x = k THEN v ELSE m[x]]
EmptyMap        == [x \in {} |-> ZeroToken]

----------------------------------------------------------------------------
(* The token functions, as functions of the two maps *)

\* UserExists: membership in the user store
UserExists(us, username) == username \in us

\* Token.IsExpired: the token is expired once the clock has reached ValidUntil
IsExpired(token, t) == ~(t < token.ValidUntil)

TokenRetrieveByUser(byUser, username) ==
    IF username \in DOMAIN byUser
    THEN [token |-> byUser[username], err |-> Nil]
    ELSE [token |-> ZeroToken, err |-> ErrNoSuchToken]

TokenRetrieveByToken(byValue, tokenString) ==
    IF tokenString \in DOMAIN byValue
    THEN [token |-> byValue[tokenString], err |-> Nil]
    ELSE [token |-> ZeroToken, err |-> ErrNoSuchToken]

\* mutant: the validity test is dropped
TokenEvaluate_IgnoresExpiry(byValue, t, tokenString) ==
    TokenRetrieveByToken(byValue, tokenString).err = Nil

TokenEvaluate(byValue, t, tokenString) ==
    LET r == TokenRetrieveByToken(byValue, tokenString)
    IN  IF r.err # Nil THEN FALSE ELSE ~IsExpired(r.token, t)

\* mutant: only the by-value index is cleaned
TokenInvalidate_KeepsUserIndex(byUser, byValue, tokenString) ==
    LET r == TokenRetrieveByToken(byValue, tokenString)
    IN  IF r.err # Nil
        THEN [err |-> r.err, byUser |-> byUser, byValue |-> byValue]
        ELSE [err |-> Nil, byUser |-> byUser,
              byValue |-> MapDelete(byValue, r.token.Token)]

\* mutant: only the by-user index is cleaned
TokenInvalidate_KeepsValueIndex(byUser, byValue, tokenString) ==
    LET r == TokenRetrieveByToken(byValue, tokenString)
    IN  IF r.err # Nil
        THEN [err |-> r.err, byUser |-> byUser, byValue |-> byValue]
        ELSE [err |-> Nil, byUser |-> MapDelete(byUser, r.token.User),
              byValue |-> byValue]

TokenInvalidate(byUser, byValue, tokenString) ==
    LET r == TokenRetrieveByToken(byValue, tokenString)
    IN  IF r.err # Nil
        THEN [err |-> r.err, byUser |-> byUser, byValue |-> byValue]
        ELSE [err |-> Nil,
              byUser  |-> MapDelete(byUser, r.token.User),
              byValue |-> MapDelete(byValue, r.token.Token)]

\* data.GenerateRandomToken(64): an error, or a string never handed out before
\* (64 random bytes do not repeat); strings are named by their order of issue
GenerateRandomToken(used) == {[tokenString |-> 0, err |-> ErrRandom]} \cup
    {[tokenString |-> v, err |-> Nil] :
        v \in {x \in TokenValues : x \notin used /\ \A y \in 1..(x - 1) : y \in used}}

\* mutant: the existing token of the user is not invalidated
TokenGenerate_NoInvalidate(us, byUser, byValue, t, username, duration, rnd) ==
    IF ~UserExists(us, username)
    THEN [token |-> ZeroToken, err |-> ErrNoSuchUser,
          byUser |-> byUser, byValue |-> byValue]
    ELSE IF rnd.err # Nil
         THEN [token |-> ZeroToken, err |-> rnd.err,
               byUser |-> byUser, byValue |-> byValue]
         ELSE LET token == [Duration |-> duration, Token |-> rnd.tokenString,
                            User |-> username, ValidFrom |-> t,
                            ValidUntil |-> t + duration]
              IN  [token |-> token, err |-> Nil,
                   byUser  |-> MapPut(byUser, username, token),
                   byValue |-> MapPut(byValue, rnd.tokenString, token)]

\* mutant: the user is looked up after the old token was invalidated
TokenGenerate_LateUserCheck(us, byUser, byValue, t, username, duration, rnd) ==
    LET old == TokenRetrieveByUser(byUser, username)
        inv == IF old.err = Nil
               THEN TokenInvalidate(byUser, byValue, old.token.Token)
               ELSE [err |-> Nil, byUser |-> byUser, byValue |-> byValue]
    IN  IF ~UserExists(us, username)
        THEN [token |-> ZeroToken, err |-> ErrNoSuchUser,
              byUser |-> inv.byUser, byValue |-> inv.byValue]
        ELSE IF rnd.err # Nil
             THEN [token |-> ZeroToken, err |-> rnd.err,
                   byUser |-> inv.byUser, byValue |-> inv.byValue]
             ELSE LET token == [Duration |-> duration, Token |-> rnd.tokenString,
                                User |-> username, ValidFrom |-> t,
                                ValidUntil |-> t + duration]
                  IN  [token |-> token, err |-> Nil,
                       byUser  |-> MapPut(inv.byUser, username, token),
                       byValue |-> MapPut(inv.byValue, rnd.tokenString, token)]

\* mutant: the new token is stored under the username only
TokenGenerate_UserIndexOnly(us, byUser, byValue, t, username, duration, rnd) ==
    IF ~UserExists(us, username)
    THEN [token |-> ZeroToken, err |-> ErrNoSuchUser,
          byUser |-> byUser, byValue |-> byValue]
    ELSE LET old == TokenRetrieveByUser(byUser, username)
             inv == IF old.err = Nil
                    THEN TokenInvalidate(byUser, byValue, old.token.Token)
                    ELSE [err |-> Nil, byUser |-> byUser, byValue |-> byValue]
         IN  IF rnd.err # Nil
             THEN [token |-> ZeroToken, err |-> rnd.err,
                   byUser |-> inv.byUser, byValue |-> inv.byValue]
             ELSE LET token == [Duration |-> duration, Token |-> rnd.tokenString,
                                User |-> username, ValidFrom |-> t,
                                ValidUntil |-> t + duration]
                  IN  [token |-> token, err |-> Nil,
                       byUser  |-> MapPut(inv.byUser, username, token),
                       byValue |-> inv.byValue]

TokenGenerate(us, byUser, byValue, t, username, duration, rnd) ==
    IF ~UserExists(us, username)
    THEN [token |-> ZeroToken, err |-> ErrNoSuchUser,
          byUser |-> byUser, byValue |-> byValue]
    ELSE LET old == TokenRetrieveByUser(byUser, username)
             inv == IF old.err = Nil
                    THEN TokenInvalidate(byUser, byValue, old.token.Token)
                    ELSE [err |-> Nil, byUser |-> byUser, byValue |-> byValue]
         IN  IF rnd.err # Nil
             THEN [token |-> ZeroToken, err |-> rnd.err,
                   byUser |-> inv.byUser, byValue |-> inv.byValue]
             ELSE LET token == [Duration |-> duration, Token |-> rnd.tokenString,
                                User |-> username, ValidFrom |-> t,
                                ValidUntil |-> t + duration]
                  IN  [token |-> token, err |-> Nil,
                       byUser  |-> MapPut(inv.byUser, username, token),
                       byValue |-> MapPut(inv.byValue, rnd.tokenString, token)]

----------------------------------------------------------------------------
(* Spec: the token store with every call executed atomically *)

NoCall == [op |-> "none", user |-> "", tokenString |-> 0, err |-> Nil,
           result |-> FALSE, token |-> ZeroToken]

\* the user a token string was handed out to ("" when it never was)
IssuedTo(s) ==
    IF \E i \in issued : i.Token = s
    THEN (CHOOSE i \in issued : i.Token = s).User
    ELSE ""

NoRule == [Command |-> "", Conditions |-> <<>>, Permissions |-> <<>>]
NoEval == [op |-> "none", result |-> FALSE, calls |-> <<>>]

RuleIdle == rule = NoRule /\ env = <<>> /\ permissions = <<>> /\ out = NoEval

\* no parser has been given anything
NoInput  == [given |-> FALSE]
NoOutput == [called |-> FALSE]
ParseIdle ==
    /\ rt = NoInput /\ parsed = NoOutput
    /\ expr = NoInput /\ pex = NoOutput
    /\ tokens = <<>> /\ po = NoInput /\ cmd = NoOutput

\* nothing has been given to String, and the role store and the group store
\* are empty
StrIdle    == params = NoInput /\ rendered = NoOutput
RolesIdle  == roles = <<>> /\ granted = <<>> /\ rlast = NoOutput /\ rprocs = <<>>
GroupsIdle == groups = <<>> /\ glast = NoOutput

Init ==
    /\ users = {}
    /\ tokensByUser = EmptyMap
    /\ tokensByValue = EmptyMap
    /\ now = 0
    /\ issued = {}
    /\ latest = [u \in Usernames |-> 0]
    /\ last = NoCall
    /\ procs = <<>>
    /\ RuleIdle
    /\ ParseIdle
    /\ StrIdle /\ RolesIdle /\ GroupsIdle

\* UserCreate of the in-memory user store
UserCreate(username) ==
    /\ username \notin users
    /\ users' = users \cup {username}
    /\ latest' = [latest EXCEPT ![username] = 0]
    /\ last' = [NoCall EXCEPT !.op = "UserCreate", !.user = username]
    /\ UNCHANGED <<tokensByUser, tokensByValue, now, issued>>
    /\ UNCHANGED <<concVars, ruleVars, parseVars, strVars, roleVars, groupVars>>

\* UserDelete of the in-memory user store
UserDelete(username) ==
    /\ username \in users
    /\ users' = users \ {username}
    /\ latest' = [latest EXCEPT ![username] = 0]
    /\ last' = [NoCall EXCEPT !.op = "UserDelete", !.user = username]
    /\ UNCHANGED <<tokensByUser, tokensByValue, now, issued>>
    /\ UNCHANGED <<concVars, ruleVars, parseVars, strVars, roleVars, groupVars>>

\* time passes
Tick ==
    /\ now < MaxTime
    /\ now' = now + 1
    /\ last' = [NoCall EXCEPT !.op = "Tick"]
    /\ UNCHANGED <<users, tokensByUser, tokensByValue, issued, latest>>
    /\ UNCHANGED <<concVars, ruleVars, parseVars, strVars, roleVars, groupVars>>

CallTokenGenerate(username, duration) ==
    \E rnd \in GenerateRandomToken({i.Token : i \in issued}) :
        LET r == TokenGenerate(users, tokensByUser, tokensByValue, now,
                               username, duration, rnd)
        IN  /\ tokensByUser' = r.byUser
            /\ tokensByValue' = r.byValue
            /\ issued' = IF r.err = Nil
                         THEN issued \cup {[Token |-> r.token.Token, User |-> username]}
                         ELSE issued
            /\ latest' = [latest EXCEPT ![username] =
                              IF r.err = Nil THEN r.token.Token ELSE 0]
            /\ last' = [NoCall EXCEPT !.op = "TokenGenerate", !.user = username,
                                      !.err = r.err, !.token = r.token,
                                      !.tokenString = r.token.Token]
            /\ UNCHANGED <<users, now>>
            /\ UNCHANGED <<concVars, ruleVars, parseVars, strVars, roleVars, groupVars>>

CallTokenInvalidate(tokenString) ==
    LET r == TokenInvalidate(tokensByUser, tokensByValue, tokenString)
    IN  /\ tokensByUser' = r.byUser
        /\ tokensByValue' = r.byValue
        /\ latest' = [u \in Usernames |->
                          IF u = IssuedTo(tokenString) THEN 0 ELSE latest[u]]
        /\ last' = [NoCall EXCEPT !.op = "TokenInvalidate", !.err = r.err,
                                  !.user = IssuedTo(tokenString),
                                  !.tokenString = tokenString]
        /\ UNCHANGED <<users, now, issued>>
        /\ UNCHANGED <<concVars, ruleVars, parseVars, strVars, roleVars, groupVars>>

\* mutant: evaluating an expired token sweeps it out of the store
CallTokenEvaluate_Sweeps(tokenString) ==
    LET r == TokenRetrieveByToken(tokensByValue, tokenString)
        sweep == r.err = Nil /\ IsExpired(r.token, now)
    IN  /\ last' = [NoCall EXCEPT !.op = "TokenEvaluate", !.tokenString = tokenString,
                       !.result = TokenEvaluate(tokensByValue, now, tokenString)]
        /\ tokensByUser' = IF sweep THEN MapDelete(tokensByUser, r.token.User)
                                    ELSE tokensByUser
        /\ tokensByValue' = IF sweep THEN MapDelete(tokensByValue, tokenString)
                                     ELSE tokensByValue
        /\ UNCHANGED <<users, now, issued, latest>>
        /\ UNCHANGED <<concVars, ruleVars, parseVars, strVars, roleVars, groupVars>>

CallTokenEvaluate(tokenString) ==
    /\ last' = [NoCall EXCEPT !.op = "TokenEvaluate", !.tokenString = tokenString,
                   !.result = TokenEvaluate(tokensByValue, now, tokenString)]
    /\ UNCHANGED <<users, tokensByUser, tokensByValue, now, issued, latest>>
    /\ UNCHANGED <<concVars, ruleVars, parseVars, strVars, roleVars, groupVars>>

Next ==
    \/ \E u \in Usernames : UserCreate(u)
    \/ \E u \in Usernames : UserDelete(u)
    \/ Tick
    \/ \E u \in Usernames, d \in Durations : CallTokenGenerate(u, d)
    \/ \E s \in TokenValues : CallTokenInvalidate(s)
    \/ \E s \in TokenValues : CallTokenEvaluate(s)

Spec == Init /\ [][Next]_vars

----------------------------------------------------------------------------
(* Properties of the token store under Spec *)

\* the token strings through which TokenRetrieveByToken returns a token of u
ActiveTokens(u) ==
    {s \in TokenValues :
        LET r == TokenRetrieveByToken(tokensByValue, s)
        IN  r.err = Nil /\ r.token.User = u}

\* C1: after any sequence of atomic TokenGenerate and TokenInvalidate calls,
\* at most one token of each username is retrievable through
\* TokenRetrieveByToken.
C1_AtMostOneTokenPerUser ==
    \A u \in Usernames : Cardinality(ActiveTokens(u)) <= 1

\* a user that already held a token has just been given a new one
C1_Witness ==
    /\ last.op = "TokenGenerate" /\ last.err = Nil
    /\ \E i \in issued : i.User = last.user /\ i.Token # last.tokenString
    /\ Cardinality(ActiveTokens(last.user)) = 1

\* C3: while the calls on u are successful TokenGenerate calls (whatever is
\* done on other users), TokenRetrieveByUser(u) returns the token of the most
\* recent one and every earlier token string of u gets ErrNoSuchToken from
\* TokenRetrieveByToken.
C3_MostRecentTokenOnly ==
    /\ \A u \in Usernames : latest[u] # 0 =>
          /\ TokenRetrieveByUser(tokensByUser, u).err = Nil
          /\ TokenRetrieveByUser(tokensByUser, u).token.Token = latest[u]
          /\ TokenRetrieveByUser(tokensByUser, u).token.User = u
          /\ \A i \in issued : (i.User = u /\ i.Token # latest[u]) =>
                TokenRetrieveByToken(tokensByValue, i.Token).err = ErrNoSuchToken
    /\ (last.op = "TokenGenerate" /\ last.err = Nil) =>
          TokenRetrieveByUser(tokensByUser, last.user).token = last.token

\* u holds its second token, and a call on another user has been made since
C3_Witness ==
    \E u \in Usernames :
        /\ latest[u] # 0
        /\ \E i \in issued : i.User = u /\ i.Token # latest[u]
        /\ last.op = "TokenGenerate" /\ last.err = Nil /\ last.user # u

\* the token string was handed out, and its user was given another one later
Superseded(s) ==
    \E i \in issued, j \in issued : i.Token = s /\ j.User = i.User /\ j.Token > s

WasIssued(s) == \E i \in issued : i.Token = s

Stored(s) == s \in DOMAIN tokensByValue

\* C4: TokenEvaluate(s) is true iff s is stored and now < ValidUntil; it is
\* false for a string never issued, for a superseded token, for an expired
\* stored token, and for an invalidated token from the invalidation on.
C4_EvaluateIffStoredAndValid ==
    /\ [](last.op = "TokenEvaluate" =>
            /\ last.result =
                  (Stored(last.tokenString)
                      /\ now < tokensByValue[last.tokenString].ValidUntil)
            /\ ~WasIssued(last.tokenString) => ~last.result
            /\ Superseded(last.tokenString) => ~last.result
            /\ (Stored(last.tokenString)
                  /\ now >= tokensByValue[last.tokenString].ValidUntil)
               => ~last.result)
    /\ [][(last'.op = "TokenInvalidate" /\ last'.err = Nil) =>
             ~TokenEvaluate(tokensByValue', now', last'.tokenString)]_vars
    /\ [][\A s \in TokenValues :
             (WasIssued(s) /\ ~Stored(s)) => ~TokenEvaluate(tokensByValue', now', s)]_vars

\* TokenEvaluate has just returned false for a stored token whose time is over
C4_Witness ==
    /\ last.op = "TokenEvaluate" /\ ~last.result
    /\ Stored(last.tokenString)
    /\ tokensByValue[last.tokenString].ValidUntil > tokensByValue[last.tokenString].ValidFrom
    /\ now >= tokensByValue[last.tokenString].ValidUntil

\* C5: a TokenEvaluate call changes neither index; a stored token, expired or
\* not, is still returned by TokenRetrieveByToken and TokenRetrieveByUser
\* after the call.
C5_EvaluateKeepsTokens ==
    [][last'.op = "TokenEvaluate" =>
          /\ tokensByUser' = tokensByUser
          /\ tokensByValue' = tokensByValue
          /\ Stored(last'.tokenString) =>
                LET t == tokensByValue[last'.tokenString]
                IN  /\ TokenRetrieveByToken(tokensByValue', last'.tokenString)
                          = [token |-> t, err |-> Nil]
                    /\ TokenRetrieveByUser(tokensByUser', t.User)
                          = [token |-> t, err |-> Nil]]_vars

\* TokenEvaluate has returned false for an expired token, which is still stored
C5_Witness ==
    /\ last.op = "TokenEvaluate" /\ ~last.result
    /\ Stored(last.tokenString)
    /\ IsExpired(tokensByValue[last.tokenString], now)
    /\ TokenRetrieveByUser(tokensByUser, tokensByValue[last.tokenString].User).err = Nil

C7_InvalidateRemovesFromBoth ==
    [][last'.op = "TokenInvalidate" =>
          IF Stored(last'.tokenString)
          THEN /\ last'.err = Nil
               /\ TokenRetrieveByToken(tokensByValue', last'.tokenString).err
                     = ErrNoSuchToken
               /\ TokenRetrieveByUser(tokensByUser',
                                      tokensByValue[last'.tokenString].User).err
                     = ErrNoSuchToken
          ELSE /\ last'.err = ErrNoSuchToken
               /\ tokensByUser' = tokensByUser
               /\ tokensByValue' = tokensByValue]_vars

\* a stored token has been invalidated while another user's token stays
C7_Witness ==
    /\ last.op = "TokenInvalidate" /\ last.err = Nil
    /\ ~Stored(last.tokenString)
    /\ last.user \notin DOMAIN tokensByUser
    /\ tokensByValue # EmptyMap

----------------------------------------------------------------------------
(* SpecConc: TokenGenerate calls of several goroutines, interleaved at the   *)
(* level of the single reads and writes of users, tokensByUser and           *)
(* tokensByValue. token-access.go takes no lock, so every interleaving of    *)
(* these steps is a run of the program. (Two goroutines inside the same map  *)
(* at the same instant are a data race, which the Go runtime may answer      *)
(* with a fatal error; the runs modelled here are those in which the         *)
(* accesses fall one after the other.)                                       *)

Procs == {"g1", "g2"}

Idle == [pc |-> "idle", username |-> "", duration |-> 0,
         token |-> ZeroToken, invToken |-> ZeroToken]

InitConc ==
    /\ users \in {{"alice"}, Usernames}
    /\ tokensByUser = EmptyMap
    /\ tokensByValue = EmptyMap
    /\ now = 0
    /\ issued = {}
    /\ latest = [u \in Usernames |-> 0]
    /\ last = NoCall
    /\ procs = [p \in Procs |-> Idle]
    /\ RuleIdle
    /\ ParseIdle
    /\ StrIdle /\ RolesIdle /\ GroupsIdle

ConcFrame ==
    UNCHANGED <<users, now, latest, ruleVars, parseVars, strVars, roleVars, groupVars>>

\* token-access.go:52-59: the call starts and looks the user up
GenUserExists(p, username, duration) ==
    /\ procs[p].pc = "idle"
    /\ IF UserExists(users, username)
       THEN /\ procs' = [procs EXCEPT ![p] = [Idle EXCEPT !.pc = "retrieveByUser",
                                                   !.username = username,
                                                   !.duration = duration]]
            /\ UNCHANGED last
       ELSE /\ procs' = [procs EXCEPT ![p] = Idle]
            /\ last' = [NoCall EXCEPT !.op = "TokenGenerate", !.user = username,
                                      !.err = ErrNoSuchUser]
    /\ UNCHANGED <<tokensByUser, tokensByValue, issued>>
    /\ ConcFrame

\* token-access.go:62-65: the read of tokensByUser[username]
GenRetrieveByUser(p) ==
    /\ procs[p].pc = "retrieveByUser"
    /\ LET r == TokenRetrieveByUser(tokensByUser, procs[p].username)
       IN  procs' = [procs EXCEPT ![p].token = r.token,
                                  ![p].pc = IF r.err = Nil THEN "invRetrieveByToken"
                                                           ELSE "random"]
    /\ UNCHANGED <<tokensByUser, tokensByValue, issued, last>>
    /\ ConcFrame

\* token-access.go:92-95: TokenInvalidate's read of tokensByValue[tokenString]
InvRetrieveByToken(p) ==
    /\ procs[p].pc = "invRetrieveByToken"
    /\ LET r == TokenRetrieveByToken(tokensByValue, procs[p].token.Token)
       IN  procs' = [procs EXCEPT ![p].invToken = r.token,
                                  ![p].pc = IF r.err = Nil THEN "invDeleteUser"
                                                           ELSE "random"]
    /\ UNCHANGED <<tokensByUser, tokensByValue, issued, last>>
    /\ ConcFrame

\* token-access.go:97: delete(tokensByUser, token.User)
InvDeleteUser(p) ==
    /\ procs[p].pc = "invDeleteUser"
    /\ tokensByUser' = MapDelete(tokensByUser, procs[p].invToken.User)
    /\ procs' = [procs EXCEPT ![p].pc = "invDeleteValue"]
    /\ UNCHANGED <<tokensByValue, issued, last>>
    /\ ConcFrame

\* token-access.go:98: delete(tokensByValue, token.Token)
InvDeleteValue(p) ==
    /\ procs[p].pc = "invDeleteValue"
    /\ tokensByValue' = MapDelete(tokensByValue, procs[p].invToken.Token)
    /\ procs' = [procs EXCEPT ![p].pc = "random"]
    /\ UNCHANGED <<tokensByUser, issued, last>>
    /\ ConcFrame

\* token-access.go:67-81: the random string, the clock, the new token
GenRandom(p) ==
    /\ procs[p].pc = "random"
    /\ \E rnd \in GenerateRandomToken({i.Token : i \in issued}) :
          IF rnd.err # Nil
          THEN /\ procs' = [procs EXCEPT ![p] = Idle]
               /\ last' = [NoCall EXCEPT !.op = "TokenGenerate",
                                         !.user = procs[p].username,
                                         !.err = rnd.err]
               /\ UNCHANGED issued
          ELSE /\ procs' = [procs EXCEPT
                     ![p].pc = "putUser",
                     ![p].token = [Duration |-> procs[p].duration,
                                   Token |-> rnd.tokenString,
                                   User |-> procs[p].username,
                                   ValidFrom |-> now,
                                   ValidUntil |-> now + procs[p].duration]]
               /\ issued' = issued \cup {[Token |-> rnd.tokenString,
                                          User |-> procs[p].username]}
               /\ UNCHANGED last
    /\ UNCHANGED <<tokensByUser, tokensByValue>>
    /\ ConcFrame

\* token-access.go:83: tokensByUser[username] = token
GenPutUser(p) ==
    /\ procs[p].pc = "putUser"
    /\ tokensByUser' = MapPut(tokensByUser, procs[p].username, procs[p].token)
    /\ procs' = [procs EXCEPT ![p].pc = "putValue"]
    /\ UNCHANGED <<tokensByValue, issued, last>>
    /\ ConcFrame

\* token-access.go:84-86: tokensByValue[tokenString] = token, and the return
GenPutValue(p) ==
    /\ procs[p].pc = "putValue"
    /\ tokensByValue' = MapPut(tokensByValue, procs[p].token.Token, procs[p].token)
    /\ procs' = [procs EXCEPT ![p] = Idle]
    /\ last' = [NoCall EXCEPT !.op = "TokenGenerate", !.user = procs[p].username,
                              !.token = procs[p].token,
                              !.tokenString = procs[p].token.Token]
    /\ UNCHANGED <<tokensByUser, issued>>
    /\ ConcFrame

NextConc ==
    \/ \E p \in Procs, u \in Usernames, d \in Durations : GenUserExists(p, u, d)
    \/ \E p \in Procs : GenRetrieveByUser(p)
    \/ \E p \in Procs : InvRetrieveByToken(p)
    \/ \E p \in Procs : InvDeleteUser(p)
    \/ \E p \in Procs : InvDeleteValue(p)
    \/ \E p \in Procs : GenRandom(p)
    \/ \E p \in Procs : GenPutUser(p)
    \/ \E p \in Procs : GenPutValue(p)

SpecConc == InitConc /\ [][NextConc]_vars

\* C2: with TokenGenerate calls for one username running concurrently, no
\* reachable state has two distinct token strings of that username that
\* TokenRetrieveByToken both returns.
C2_ConcurrentGenerateSupersedes ==
    \A u \in Usernames : \A s1 \in ActiveTokens(u), s2 \in ActiveTokens(u) : s1 = s2

----------------------------------------------------------------------------
(* The rule evaluator: Rule.Matches and Rule.Allowed *)

\* number of elements in a rule's condition list or permission list
MaxLen == 3

\* the join conditions of Expression and Permission
Undefined == "Undefined"
And       == "And"
Or        == "Or"
Joins     == {Undefined, And, Or}

\* values: integers, and Null for a reference that resolves to nothing
IntVal(n) == [kind |-> "Int", v |-> n]
Null      == [kind |-> "Null", v |-> 0]

\* the environments: the list "arg" of positional parameters of the command
Envs == {<<>>, <<1>>, <<2>>}

\* the references used as left operands: arg[0] and the out-of-range arg[99]
Refs == {"arg[0]", "arg[99]"}
ArgIndex(ref) == IF ref = "arg[0]" THEN 0 ELSE 99

\* the value of a reference in the environment; Null when nothing is there
Resolve(ref, e) ==
    IF ArgIndex(ref) < Len(e) THEN IntVal(e[ArgIndex(ref) + 1]) ELSE Null

Expressions ==
    [A : Refs, B : {IntVal(1)}, Operator : {"Equals", "NotEquals"}, Condition : Joins]

PermissionNames == {"p", "q"}
PermissionValues == [Name : PermissionNames, Condition : Joins]

\* Expression.Evaluate: the operator applied to the resolved operands
Evaluate(c, e) ==
    IF c.Operator = "Equals" THEN Resolve(c.A, e) = c.B ELSE Resolve(c.A, e) # c.B

\* mutant: only the first entry of the permission list is looked at
hasPermission_FirstOnly(required, perms) ==
    Len(perms) >= 1 /\ perms[1] = required.Name

hasPermission(required, perms) ==
    \E i \in 1..Len(perms) : perms[i] = required.Name

\* mutant: a permission joined by "and" is passed over
RECURSIVE AllowedLoop_SkipsAnd(_, _, _, _)
AllowedLoop_SkipsAnd(r, perms, i, result) ==
    IF i > Len(r.Permissions) THEN result
    ELSE LET p == r.Permissions[i]
         IN  IF p.Condition = Or
             THEN AllowedLoop_SkipsAnd(r, perms, i + 1, result \/ hasPermission(p, perms))
             ELSE AllowedLoop_SkipsAnd(r, perms, i + 1, result)

RECURSIVE AllowedLoop(_, _, _, _)
AllowedLoop(r, perms, i, result) ==
    IF i > Len(r.Permissions) THEN result
    ELSE LET p == r.Permissions[i]
         IN  IF p.Condition = And
             THEN AllowedLoop(r, perms, i + 1, result /\ hasPermission(p, perms))
             ELSE IF p.Condition = Or
                  THEN AllowedLoop(r, perms, i + 1, result \/ hasPermission(p, perms))
                  ELSE AllowedLoop(r, perms, i + 1, result)

Allowed(r, perms) ==
    IF Len(r.Permissions) = 0 THEN TRUE
    ELSE AllowedLoop(r, perms, 2, hasPermission(r.Permissions[1], perms))

\* One call of c.Evaluate(env) on condition i: the result, and i added to the
\* list of the conditions Evaluate was called on.
Called(acc, r, e, i) ==
    [result |-> Evaluate(r.Conditions[i], e), calls |-> Append(acc.calls, i)]

\* mutant: "and" binds tighter than "or"
RECURSIVE MatchesLoop_Precedence(_, _, _, _, _)
MatchesLoop_Precedence(r, e, i, done, cur) ==
    IF i > Len(r.Conditions) THEN done \/ cur
    ELSE LET c == r.Conditions[i]
         IN  IF c.Condition = And
             THEN MatchesLoop_Precedence(r, e, i + 1, done, cur /\ Evaluate(c, e))
             ELSE IF c.Condition = Or
                  THEN MatchesLoop_Precedence(r, e, i + 1, done \/ cur, Evaluate(c, e))
                  ELSE MatchesLoop_Precedence(r, e, i + 1, done, cur)

Matches_Precedence(r, e) ==
    IF Len(r.Conditions) = 0 THEN [result |-> TRUE, calls |-> <<>>]
    ELSE [result |-> MatchesLoop_Precedence(r, e, 2, FALSE, Evaluate(r.Conditions[1], e)),
          calls  |-> <<1>>]

\* mutant: c.Evaluate(env) is the left operand of && and ||
RECURSIVE MatchesLoop_Eager(_, _, _, _)
MatchesLoop_Eager(r, e, i, acc) ==
    IF i > Len(r.Conditions) THEN acc
    ELSE LET c == r.Conditions[i]
         IN  IF c.Condition = And
             THEN MatchesLoop_Eager(r, e, i + 1,
                      [result |-> Evaluate(c, e) /\ acc.result,
                       calls  |-> Append(acc.calls, i)])
             ELSE IF c.Condition = Or
                  THEN MatchesLoop_Eager(r, e, i + 1,
                           [result |-> Evaluate(c, e) \/ acc.result,
                            calls  |-> Append(acc.calls, i)])
                  ELSE MatchesLoop_Eager(r, e, i + 1, acc)

Matches_Eager(r, e) ==
    IF Len(r.Conditions) = 0 THEN [result |-> TRUE, calls |-> <<>>]
    ELSE MatchesLoop_Eager(r, e, 2, Called([calls |-> <<>>], r, e, 1))

\* mutant: a condition whose join is neither And nor Or is joined by And
RECURSIVE MatchesLoop_UndefinedIsAnd(_, _, _, _)
MatchesLoop_UndefinedIsAnd(r, e, i, acc) ==
    IF i > Len(r.Conditions) THEN acc
    ELSE LET c == r.Conditions[i]
         IN  IF c.Condition = Or
             THEN MatchesLoop_UndefinedIsAnd(r, e, i + 1,
                      IF acc.result THEN acc ELSE Called(acc, r, e, i))
             ELSE MatchesLoop_UndefinedIsAnd(r, e, i + 1,
                      IF acc.result THEN Called(acc, r, e, i) ELSE acc)

\* rule.go:70-82; Go's && and || call c.Evaluate(env) only when the left
\* operand does not decide the result
RECURSIVE MatchesLoop(_, _, _, _)
MatchesLoop(r, e, i, acc) ==
    IF i > Len(r.Conditions) THEN acc
    ELSE LET c == r.Conditions[i]
         IN  IF c.Condition = And
             THEN MatchesLoop(r, e, i + 1,
                      IF acc.result THEN Called(acc, r, e, i) ELSE acc)
             ELSE IF c.Condition = Or
                  THEN MatchesLoop(r, e, i + 1,
                           IF acc.result THEN acc ELSE Called(acc, r, e, i))
                  ELSE MatchesLoop(r, e, i + 1, acc)

\* mutant: a rule without conditions matches nothing
Matches_EmptyMatchesNothing(r, e) ==
    IF Len(r.Conditions) = 0 THEN [result |-> FALSE, calls |-> <<>>]
    ELSE MatchesLoop(r, e, 2, Called([calls |-> <<>>], r, e, 1))

Matches(r, e) ==
    IF Len(r.Conditions) = 0 THEN [result |-> TRUE, calls |-> <<>>]
    ELSE MatchesLoop(r, e, 2, Called([calls |-> <<>>], r, e, 1))

----------------------------------------------------------------------------
(* SpecRule: a rule, an environment and a permission list are drawn, and    *)
(* Matches and Allowed are applied to them.                                 *)

SeqsUpTo(S, n) == UNION {[1..k -> S] : k \in 0..n}

TokensIdle ==
    /\ users = {}
    /\ tokensByUser = EmptyMap
    /\ tokensByValue = EmptyMap
    /\ now = 0
    /\ issued = {}
    /\ latest = [u \in Usernames |-> 0]
    /\ last = NoCall
    /\ procs = <<>>

InitRule ==
    /\ TokensIdle
    /\ ParseIdle
    /\ StrIdle /\ RolesIdle /\ GroupsIdle
    /\ out = NoEval
    /\ \/ /\ rule \in {[Command |-> "foo:bar", Conditions |-> cs, Permissions |-> <<>>] :
                          cs \in SeqsUpTo(Expressions, MaxLen)}
          /\ env \in Envs
          /\ permissions = <<>>
       \/ /\ rule \in {[Command |-> "foo:bar", Conditions |-> <<>>, Permissions |-> ps] :
                          ps \in SeqsUpTo(PermissionValues, MaxLen)}
          /\ env = <<>>
          /\ permissions \in SeqsUpTo(PermissionNames, 2)

CallMatches ==
    /\ out' = [op |-> "Matches", result |-> Matches(rule, env).result,
               calls |-> Matches(rule, env).calls]
    /\ UNCHANGED <<rule, env, permissions, tokVars, concVars, parseVars,
                 strVars, roleVars, groupVars>>

CallAllowed ==
    /\ out' = [op |-> "Allowed", result |-> Allowed(rule, permissions), calls |-> <<>>]
    /\ UNCHANGED <<rule, env, permissions, tokVars, concVars, parseVars,
                 strVars, roleVars, groupVars>>

NextRule ==
    \/ CallMatches
    \/ CallAllowed

SpecRule == InitRule /\ [][NextRule]_vars

----------------------------------------------------------------------------
(* Properties of the rule evaluator under SpecRule *)

\* The strict left-to-right fold of the truth values vals[1..n] under the
\* joins: ((v1 j2 v2) j3 v3) ..., every operand evaluated. An element whose
\* join is neither And nor Or is passed over.
RECURSIVE FoldLeft(_, _, _)
FoldLeft(vals, joins, n) ==
    IF n = 1 THEN vals[1]
    ELSE IF joins[n] = And THEN FoldLeft(vals, joins, n - 1) /\ vals[n]
    ELSE IF joins[n] = Or THEN FoldLeft(vals, joins, n - 1) \/ vals[n]
    ELSE FoldLeft(vals, joins, n - 1)

CondVals  == [i \in 1..Len(rule.Conditions) |-> Evaluate(rule.Conditions[i], env)]
CondJoins == [i \in 1..Len(rule.Conditions) |-> rule.Conditions[i].Condition]
PermVals  == [i \in 1..Len(rule.Permissions) |->
                 hasPermission(rule.Permissions[i], permissions)]
PermJoins == [i \in 1..Len(rule.Permissions) |-> rule.Permissions[i].Condition]

\* every join after the first is And or Or
JoinsGiven(joins) == \A i \in 2..Len(joins) : joins[i] \in {And, Or}

\* C8: Matches and Allowed return the strict left-to-right fold of their
\* elements, without precedence: x and y or z is ((x and y) or z), and
\* x or y and z is ((x or y) and z).
C8_StrictLeftFold ==
    /\ (out.op = "Matches" /\ Len(rule.Conditions) >= 1 /\ JoinsGiven(CondJoins)) =>
          /\ out.result = FoldLeft(CondVals, CondJoins, Len(rule.Conditions))
          /\ (Len(rule.Conditions) = 3 /\ CondJoins[2] = And /\ CondJoins[3] = Or)
                => out.result = ((CondVals[1] /\ CondVals[2]) \/ CondVals[3])
          /\ (Len(rule.Conditions) = 3 /\ CondJoins[2] = Or /\ CondJoins[3] = And)
                => out.result = ((CondVals[1] \/ CondVals[2]) /\ CondVals[3])
    /\ (out.op = "Allowed" /\ Len(rule.Permissions) >= 1 /\ JoinsGiven(PermJoins)) =>
          /\ out.result = FoldLeft(PermVals, PermJoins, Len(rule.Permissions))
          /\ (Len(rule.Permissions) = 3 /\ PermJoins[2] = And /\ PermJoins[3] = Or)
                => out.result = ((PermVals[1] /\ PermVals[2]) \/ PermVals[3])
          /\ (Len(rule.Permissions) = 3 /\ PermJoins[2] = Or /\ PermJoins[3] = And)
                => out.result = ((PermVals[1] \/ PermVals[2]) /\ PermVals[3])

\* Matches has returned false for `x or y and z` with x true and z false,
\* where "and" binding tighter would have given true
C8_Witness ==
    /\ out.op = "Matches" /\ Len(rule.Conditions) = 3
    /\ CondJoins[2] = Or /\ CondJoins[3] = And
    /\ CondVals[1] /\ ~CondVals[3]
    /\ ~out.result

\* C9: a rule without conditions matches every environment, and a rule
\* without permissions is allowed for every permission list, the empty one
\* included.
C9_EmptyMatchesAndAllows ==
    /\ (out.op = "Matches" /\ Len(rule.Conditions) = 0) => out.result
    /\ (out.op = "Allowed" /\ Len(rule.Permissions) = 0) => out.result

\* a rule without conditions has matched an environment that holds an argument
C9_Witness ==
    /\ out.op = "Matches" /\ Len(rule.Conditions) = 0 /\ Len(rule.Permissions) = 0
    /\ Len(env) > 0
    /\ out.result

\* C10: Matches calls Evaluate on the condition at position i >= 2 only if
\* its join is And and the result accumulated before it is true, or its join
\* is Or and that result is false; in `false and (arg[99] == 1)` the second
\* condition is not evaluated.
C10_ShortCircuit ==
    out.op = "Matches" =>
        /\ \A k \in 1..Len(out.calls) :
              LET i == out.calls[k]
              IN  i >= 2 =>
                    \/ CondJoins[i] = And /\ FoldLeft(CondVals, CondJoins, i - 1)
                    \/ CondJoins[i] = Or /\ ~FoldLeft(CondVals, CondJoins, i - 1)
        /\ (Len(rule.Conditions) = 2 /\ ~CondVals[1] /\ CondJoins[2] = And
               /\ rule.Conditions[2].A = "arg[99]")
              => out.calls = <<1>>

\* `false and (arg[99] == 1)` has been matched: only the first condition was
\* evaluated
C10_Witness ==
    /\ out.op = "Matches" /\ Len(rule.Conditions) = 2
    /\ ~CondVals[1]
    /\ rule.Conditions[2] = [A |-> "arg[99]", B |-> IntVal(1),
                             Operator |-> "Equals", Condition |-> And]
    /\ out.calls = <<1>>
    /\ ~out.result

\* the permission list holds every permission the rule names
HasEveryPermission ==
    \A i \in 1..Len(rule.Permissions) : hasPermission(rule.Permissions[i], permissions)

----------------------------------------------------------------------------
(* The rule parser: rules.Parse and ParseExpression.  A condition is the    *)
(* sequence of its words, the words being what whitespace separates; a      *)
(* permission token is one word.                                            *)

OpChars == {"!", "<", ">", "="}

\* the words the regex takes as the operator: [!<>=]{1,2}|in
OpTexts == OpChars \cup {x \o y : x, y \in OpChars} \cup {"in"}

ErrNotConform          == "expression doesn't conform to form A OP B"
ErrUnsupportedOperator == "unsupported operator"
ErrInvalidRegex        == "invalid regular expression"

\* the zero value of a named result that was never assigned
Zero == "zero"

StringVal(ws) == [kind |-> "String", v |-> ws]

\* types.Inferrer.Infer on an operand: /.../ is a regular expression and
\* fails when it is not a valid one, digits are an Int, the rest is a string
InferOperand(ws) ==
    IF ws = <<"/(/">> THEN [value |-> Null, err |-> ErrInvalidRegex]
    ELSE IF ws = <<"1">> THEN [value |-> IntVal(1), err |-> Nil]
    ELSE [value |-> StringVal(ws), err |-> Nil]

Max(S) == CHOOSE x \in S : \A y \in S : y <= x

\* the words of e that `\s+([!<>=]{1,2}|in)\s+` can match when the left
\* operand starts at word lo: an operator word with a word on either side
OpAt(e, lo) == {k \in (lo + 1)..(Len(e) - 1) : e[k] \in OpTexts}

Submatch(e, lo, k) ==
    [modifier |-> IF lo = 2 THEN e[1] ELSE "",
     a        |-> SubSeq(e, lo, k - 1),
     op       |-> e[k],
     b        |-> SubSeq(e, k + 1, Len(e))]

\* reOperatorParts.FindStringSubmatch: the optional group (all|any) is tried
\* first, and the greedy (.*) of the left operand takes the last operator
\* word of the condition; <<>> when the regex does not match
reOperatorParts(e) ==
    IF Len(e) >= 1 /\ e[1] \in {"all", "any"} /\ OpAt(e, 2) # {}
    THEN <<Submatch(e, 2, Max(OpAt(e, 2)))>>
    ELSE IF OpAt(e, 1) # {}
         THEN <<Submatch(e, 1, Max(OpAt(e, 1)))>>
         ELSE <<>>

\* mutant: a single = is taken as the equality operator
OperatorSwitch_SingleEquals(op) ==
    CASE op \in {"==", "="} -> [o |-> "Equals", err |-> Nil]
      [] op = "!=" -> [o |-> "NotEquals", err |-> Nil]
      [] op = "<"  -> [o |-> "LessThan", err |-> Nil]
      [] op = "<=" -> [o |-> "LessThanOrEqualTo", err |-> Nil]
      [] op = ">"  -> [o |-> "GreaterThan", err |-> Nil]
      [] op = ">=" -> [o |-> "GreaterThanOrEqualTo", err |-> Nil]
      [] op = "in" -> [o |-> "In", err |-> Nil]
      [] OTHER     -> [o |-> Zero, err |-> ErrUnsupportedOperator]

\* the switch on the operator text
OperatorSwitch(op) ==
    CASE op = "==" -> [o |-> "Equals", err |-> Nil]
      [] op = "!=" -> [o |-> "NotEquals", err |-> Nil]
      [] op = "<"  -> [o |-> "LessThan", err |-> Nil]
      [] op = "<=" -> [o |-> "LessThanOrEqualTo", err |-> Nil]
      [] op = ">"  -> [o |-> "GreaterThan", err |-> Nil]
      [] op = ">=" -> [o |-> "GreaterThanOrEqualTo", err |-> Nil]
      [] op = "in" -> [o |-> "In", err |-> Nil]
      [] OTHER     -> [o |-> Zero, err |-> ErrUnsupportedOperator]

\* the switch on the modifier text
ModifierSwitch(modifier) ==
    CASE modifier = "all" -> "CollAll"
      [] modifier = "any" -> "CollAny"
      [] OTHER            -> "CollOne"

ParseExpression(e) ==
    LET subs == reOperatorParts(e)
    IN  IF subs = <<>>
        THEN [a |-> <<>>, b |-> <<>>, o |-> Zero, m |-> Zero, err |-> ErrNotConform]
        ELSE [a   |-> subs[1].a,
              b   |-> subs[1].b,
              o   |-> OperatorSwitch(subs[1].op).o,
              m   |-> ModifierSwitch(subs[1].modifier),
              err |-> OperatorSwitch(subs[1].op).err]

\* the loop over rt.Permissions; lastCondition is assigned by "and" and "or"
\* and by nothing else
RECURSIVE ParsePermissions(_, _, _, _)
ParsePermissions(ps, i, lastCondition, acc) ==
    IF i > Len(ps) THEN acc
    ELSE IF ps[i] = "and" THEN ParsePermissions(ps, i + 1, And, acc)
    ELSE IF ps[i] = "or" THEN ParsePermissions(ps, i + 1, Or, acc)
    ELSE ParsePermissions(ps, i + 1, lastCondition,
             Append(acc, [Name |-> ps[i], Condition |-> lastCondition]))

\* the loop over rt.Conditions; it returns at the first error with the rule
\* built so far
RECURSIVE ParseConditions(_, _, _, _)
ParseConditions(cs, i, lastCondition, r) ==
    IF i > Len(cs) THEN [rule |-> r, err |-> Nil]
    ELSE IF cs[i] = <<"and">> THEN ParseConditions(cs, i + 1, And, r)
    ELSE IF cs[i] = <<"or">> THEN ParseConditions(cs, i + 1, Or, r)
    ELSE LET x  == ParseExpression(cs[i])
             va == InferOperand(x.a)
             vb == InferOperand(x.b)
         IN  IF x.err # Nil THEN [rule |-> r, err |-> x.err]
             ELSE IF va.err # Nil THEN [rule |-> r, err |-> va.err]
             ELSE IF vb.err # Nil THEN [rule |-> r, err |-> vb.err]
             ELSE ParseConditions(cs, i + 1, lastCondition,
                      [r EXCEPT !.Conditions =
                          Append(@, [A |-> va.value, B |-> vb.value,
                                     Operator |-> x.o, Modifier |-> x.m,
                                     Condition |-> lastCondition])])

rules_Parse(t) ==
    ParseConditions(t.Conditions, 1, Undefined,
        [Command     |-> t.Command,
         Conditions  |-> <<>>,
         Permissions |-> ParsePermissions(t.Permissions, 1, Undefined, <<>>)])

----------------------------------------------------------------------------
(* SpecRuleParse: a RuleTokens value is drawn and rules.Parse is applied.   *)

PermissionTokens == {"and", "or", "p", "q"}

\* the joins, a well-formed condition, one with an operator the switch does
\* not know, one without an operator, and two with an operand that fails
\* inference
ConditionTokens ==
    { <<"and">>, <<"or">>,
      <<"arg[0]", "==", "1">>, <<"any", "arg", "in", "list">>,
      <<"arg[0]", "=", "1">>, <<"arg[0]">>,
      <<"/(/", "==", "1">>, <<"arg[0]", "==", "/(/">> }

CmdIdle == tokens = <<>> /\ po = NoInput /\ cmd = NoOutput

InitRuleParse ==
    /\ TokensIdle
    /\ RuleIdle
    /\ StrIdle /\ RolesIdle /\ GroupsIdle
    /\ expr = NoInput /\ pex = NoOutput
    /\ CmdIdle
    /\ parsed = NoOutput
    /\ \/ rt \in {[given |-> TRUE, Command |-> "foo:bar", Conditions |-> cs,
                   Permissions |-> ps] :
                     cs \in SeqsUpTo(ConditionTokens, MaxLen),
                     ps \in SeqsUpTo(PermissionTokens, 1)}
       \/ rt \in {[given |-> TRUE, Command |-> "foo:bar", Conditions |-> cs,
                   Permissions |-> ps] :
                     cs \in SeqsUpTo(ConditionTokens, 1),
                     ps \in SeqsUpTo(PermissionTokens, MaxLen)}

CallParse ==
    /\ parsed' = [called |-> TRUE, rule |-> rules_Parse(rt).rule,
                  err |-> rules_Parse(rt).err]
    /\ UNCHANGED <<rt, expr, pex, tokens, po, cmd, tokVars, concVars, ruleVars,
                 strVars, roleVars, groupVars>>

NextRuleParse == CallParse

SpecRuleParse == InitRuleParse /\ [][NextRuleParse]_vars

ParseSucceeded == parsed.called /\ parsed.err = Nil

\* C13: when rules.Parse succeeds, the first element of the Conditions it
\* returns and the first element of the Permissions it returns, where there
\* is one, have the join Undefined.
C13_FirstJoinUndefined ==
    ParseSucceeded =>
        /\ Len(parsed.rule.Conditions) >= 1 =>
              parsed.rule.Conditions[1].Condition = Undefined
        /\ Len(parsed.rule.Permissions) >= 1 =>
              parsed.rule.Permissions[1].Condition = Undefined

\* C14: when rules.Parse succeeds, every element after the first of the
\* Conditions and of the Permissions it returns has the join And or Or.
C14_LaterJoinsGiven ==
    ParseSucceeded =>
        /\ \A i \in 2..Len(parsed.rule.Conditions) :
              parsed.rule.Conditions[i].Condition \in {And, Or}
        /\ \A i \in 2..Len(parsed.rule.Permissions) :
              parsed.rule.Permissions[i].Condition \in {And, Or}

----------------------------------------------------------------------------
(* SpecExpr: a condition is put together from a modifier, a left operand,   *)
(* an operator word and a right operand, and ParseExpression is applied to  *)
(* its words.                                                               *)

Modifiers == {<<>>, <<"all">>, <<"any">>}

\* operands: one word (among them the word "all"), none, and one that holds
\* an operator word itself
LeftOperands  == {<<"arg[0]">>, <<"all">>, <<>>, <<"x", "==", "y">>}
RightOperands == {<<"1">>, <<>>, <<"x", "<", "y">>}

\* the operator words: all the regex accepts, and two it does not
OperatorWords == OpTexts \cup {"===", "is"}

\* the words of the condition
ExprText(x) == x.mod \o x.a \o <<x.op>> \o x.b

InitExpr ==
    /\ TokensIdle
    /\ RuleIdle
    /\ StrIdle /\ RolesIdle /\ GroupsIdle
    /\ rt = NoInput /\ parsed = NoOutput
    /\ CmdIdle
    /\ pex = NoOutput
    /\ expr \in {[given |-> TRUE, mod |-> m, a |-> a, op |-> o, b |-> b] :
                    m \in Modifiers, a \in LeftOperands,
                    o \in OperatorWords, b \in RightOperands}

CallParseExpression ==
    /\ pex' = [called |-> TRUE, out |-> ParseExpression(ExprText(expr))]
    /\ UNCHANGED <<rt, parsed, expr, tokens, po, cmd, tokVars, concVars, ruleVars,
                 strVars, roleVars, groupVars>>

NextExpr == CallParseExpression

SpecExpr == InitExpr /\ [][NextExpr]_vars

\* the condition has the form `[all|any] A OP B` with one word for A and for B
PlainOperands == Len(expr.a) = 1 /\ Len(expr.b) = 1

\* C15: for a condition `A OP B`, ParseExpression returns the operator of the
\* operator text for ==, !=, <, <=, >, >= and in, and the unsupported-operator
\* error for every other string of one or two of the characters ! < > =; the
\* modifier it returns is All after a leading `all`, Any after a leading
\* `any`, and One without either.
C15_SevenOperators ==
    (pex.called /\ PlainOperands /\ expr.op \in OpTexts) =>
        /\ expr.op = "==" => (pex.out.o = "Equals" /\ pex.out.err = Nil)
        /\ expr.op = "!=" => (pex.out.o = "NotEquals" /\ pex.out.err = Nil)
        /\ expr.op = "<"  => (pex.out.o = "LessThan" /\ pex.out.err = Nil)
        /\ expr.op = "<=" => (pex.out.o = "LessThanOrEqualTo" /\ pex.out.err = Nil)
        /\ expr.op = ">"  => (pex.out.o = "GreaterThan" /\ pex.out.err = Nil)
        /\ expr.op = ">=" => (pex.out.o = "GreaterThanOrEqualTo" /\ pex.out.err = Nil)
        /\ expr.op = "in" => (pex.out.o = "In" /\ pex.out.err = Nil)
        /\ expr.op \notin {"==", "!=", "<", "<=", ">", ">=", "in"} =>
              pex.out.err = ErrUnsupportedOperator
        /\ expr.mod = <<"all">> => pex.out.m = "CollAll"
        /\ expr.mod = <<"any">> => pex.out.m = "CollAny"
        /\ expr.mod = <<>> => pex.out.m = "CollOne"
        /\ pex.out.a = expr.a /\ pex.out.b = expr.b

\* `all arg[0] = 1` has been refused: a single = is not an operator, and the
\* modifier was still read
C15_Witness ==
    /\ pex.called /\ PlainOperands
    /\ expr.mod = <<"all">> /\ expr.op = "="
    /\ pex.out.err = ErrUnsupportedOperator
    /\ pex.out.m = "CollAll"

----------------------------------------------------------------------------
(* The command parser: command.Parse.  A token is the sequence of its       *)
(* characters.                                                              *)

ErrEmptyTokens              == "empty tokens list"
ErrInvalidBundleCommandPair == "invalid bundle:comand pair"

BoolVal(b)    == [kind |-> "Bool", v |-> b]
RegexVal(str) == [kind |-> "Regex", v |-> str]

Digits == {"0", "1", "2", "3", "4", "5", "6", "7", "8", "9"}

DigitValue(ch) ==
    CASE ch = "0" -> 0 [] ch = "1" -> 1 [] ch = "2" -> 2 [] ch = "3" -> 3
      [] ch = "4" -> 4 [] ch = "5" -> 5 [] ch = "6" -> 6 [] ch = "7" -> 7
      [] ch = "8" -> 8 [] ch = "9" -> 9

\* the number a string of digits denotes
RECURSIVE Decimal(_)
Decimal(ds) ==
    IF Len(ds) = 0 THEN 0
    ELSE 10 * Decimal(SubSeq(ds, 1, Len(ds) - 1)) + DigitValue(ds[Len(ds)])

IsDigits(str) == Len(str) >= 1 /\ \A k \in 1..Len(str) : str[k] \in Digits

\* types.Inferrer.Infer with ComplexTypes and StrictStrings off, on tokens
\* without `.` and exponent: /.../ is a regular expression and fails when it
\* is not a valid one, ^-?\d+$ is an Int, true and false are a Bool, and
\* every other token is a string
Infer(t) ==
    IF Len(t) >= 2 /\ t[1] = "/" /\ t[Len(t)] = "/"
    THEN IF SubSeq(t, 2, Len(t) - 1) = <<"(">>
         THEN [value |-> Null, err |-> ErrInvalidRegex]
         ELSE [value |-> RegexVal(SubSeq(t, 2, Len(t) - 1)), err |-> Nil]
    ELSE IF IsDigits(t) THEN [value |-> IntVal(Decimal(t)), err |-> Nil]
    ELSE IF Len(t) >= 2 /\ t[1] = "-" /\ IsDigits(Tail(t))
         THEN [value |-> IntVal(0 - Decimal(Tail(t))), err |-> Nil]
    ELSE IF t = <<"t", "r", "u", "e">> THEN [value |-> BoolVal(TRUE), err |-> Nil]
    ELSE IF t = <<"f", "a", "l", "s", "e">> THEN [value |-> BoolVal(FALSE), err |-> Nil]
    ELSE [value |-> StringVal(t), err |-> Nil]

\* types.Inferrer.InferAll: the values of the tokens in order, or the first
\* error
RECURSIVE InferAll(_)
InferAll(ts) ==
    IF Len(ts) = 0 THEN [values |-> <<>>, err |-> Nil]
    ELSE LET x    == Infer(ts[1])
             rest == InferAll(Tail(ts))
         IN  IF x.err # Nil THEN [values |-> <<>>, err |-> x.err]
             ELSE IF rest.err # Nil THEN rest
             ELSE [values |-> <<x.value>> \o rest.values, err |-> Nil]

\* strings.Split(name, ":")
RECURSIVE Split(_, _)
Split(name, cur) ==
    IF Len(name) = 0 THEN <<cur>>
    ELSE IF name[1] = ":" THEN <<cur>> \o Split(Tail(name), <<>>)
    ELSE Split(Tail(name), Append(cur, name[1]))

\* mutant: what follows a second colon is dropped
SplitCommand_FirstTwo(name) ==
    LET split == Split(name, <<>>)
    IN  IF Len(split) = 1
        THEN [bundle |-> <<>>, command |-> split[1], err |-> Nil]
        ELSE [bundle |-> split[1], command |-> split[2], err |-> Nil]

SplitCommand(name) ==
    LET split == Split(name, <<>>)
    IN  CASE Len(split) = 1 -> [bundle |-> <<>>, command |-> split[1], err |-> Nil]
          [] Len(split) = 2 -> [bundle |-> split[1], command |-> split[2], err |-> Nil]
          [] OTHER -> [bundle |-> <<>>, command |-> <<>>,
                       err |-> ErrInvalidBundleCommandPair]

buildOption(name, o) ==
    [Name  |-> IF name \in DOMAIN o.aliases THEN o.aliases[name] ELSE name,
     Value |-> BoolVal(TRUE)]

RECURSIVE dashCount(_)
dashCount(str) ==
    IF Len(str) = 0 \/ str[1] # "-" THEN 0 ELSE 1 + dashCount(Tail(str))

\* lastOption = buildOption(...); cmd.Options[lastOption.Name] = *lastOption
SetOption(st, opt) ==
    [st EXCEPT !.Options = MapPut(@, opt.Name, opt), !.lastOption = <<opt>>]

\* (ok && explicitHas) || (!ok && po.assumeOptionArguments)
hasArgument(name, o) ==
    \/ name \in DOMAIN o.hasArg /\ o.hasArg[name]
    \/ name \notin DOMAIN o.hasArg /\ o.assumeOptionArguments

\* mutant: the option that stays pending is the one of the first character
RECURSIVE ShortOptions_FirstPending(_, _, _, _)
ShortOptions_FirstPending(chars, k, o, st) ==
    IF k > Len(chars) THEN st
    ELSE LET opt == buildOption(<<chars[k]>>, o)
         IN  ShortOptions_FirstPending(chars, k + 1, o,
                 [st EXCEPT !.Options = MapPut(@, opt.Name, opt),
                            !.lastOption = IF k = 1 THEN <<opt>> ELSE @])

\* for _, ch := range t[1:]: one option for each character
RECURSIVE ShortOptions(_, _, _, _)
ShortOptions(chars, k, o, st) ==
    IF k > Len(chars) THEN st
    ELSE ShortOptions(chars, k + 1, o, SetOption(st, buildOption(<<chars[k]>>, o)))

\* mutant: the `--` token is the first of the parameters
AfterTerminator_Inclusive(ts, i) == SubSeq(ts, i, Len(ts))

\* tokens[i+1:]
AfterTerminator(ts, i) == SubSeq(ts, i + 1, Len(ts))

\* cmd.Parameters, err = infer.InferAll(...), and the loop ends
SetParameters(st, ts) ==
    [st EXCEPT !.Parameters = InferAll(ts).values, !.err = InferAll(ts).err,
               !.done = TRUE]

\* one iteration of the loop of Parse, on token i of the tokens after the
\* command
ParseToken(ts, i, o, st) ==
    LET t == ts[i]
    IN  IF t = <<"-", "-">>
        THEN SetParameters(st, AfterTerminator(ts, i))
        ELSE IF Len(t) >= 2 /\ dashCount(t) = 2
        THEN SetOption(st, buildOption(SubSeq(t, 3, Len(t)), o))
        ELSE IF Len(t) >= 1 /\ dashCount(t) = 1
        THEN IF o.agnosticDashes
             THEN SetOption(st, buildOption(Tail(t), o))
             ELSE ShortOptions(Tail(t), 1, o, st)
        ELSE IF st.lastOption # <<>> /\ hasArgument(st.lastOption[1].Name, o)
        THEN IF Infer(t).err # Nil
             THEN [st EXCEPT !.err = Infer(t).err, !.done = TRUE]
             ELSE [st EXCEPT
                      !.Options = MapPut(@, st.lastOption[1].Name,
                                         [Name  |-> st.lastOption[1].Name,
                                          Value |-> Infer(t).value]),
                      !.lastOption = <<>>]
        ELSE SetParameters(st, SubSeq(ts, i, Len(ts)))

\* what the loop holds after an iteration
Snapshot(st) ==
    [Options |-> st.Options, lastOption |-> st.lastOption,
     Parameters |-> st.Parameters]

\* the loop of Parse; trace keeps the state after every iteration
RECURSIVE ParseLoop(_, _, _, _)
ParseLoop(ts, i, o, st) ==
    IF i > Len(ts) \/ st.done THEN st
    ELSE LET nx == ParseToken(ts, i, o, st)
         IN  ParseLoop(ts, i + 1, o,
                 [nx EXCEPT !.trace = Append(@, Snapshot(nx))])

\* Command{}
ZeroCommand ==
    [Bundle |-> <<>>, Command |-> <<>>, Options |-> <<>>, Parameters |-> <<>>,
     lastOption |-> <<>>, err |-> Nil, done |-> FALSE, trace |-> <<>>]

command_Parse(ts, o) ==
    IF Len(ts) = 0 THEN [ZeroCommand EXCEPT !.err = ErrEmptyTokens]
    ELSE IF SplitCommand(ts[1]).err # Nil
         THEN [ZeroCommand EXCEPT !.err = SplitCommand(ts[1]).err]
         ELSE ParseLoop(Tail(ts), 1, o,
                  [ZeroCommand EXCEPT !.Bundle = SplitCommand(ts[1]).bundle,
                                      !.Command = SplitCommand(ts[1]).command])

----------------------------------------------------------------------------
(* SpecCmd: a token list and the parse options are drawn, and command.Parse *)
(* is applied to them.                                                      *)

\* number of tokens after the command
MaxArgs == 3

\* foo:bar
Cmd0 == <<"f", "o", "o", ":", "b", "a", "r">>

\* --, -a, -ab, --ab, -, v, 42
TokenPool ==
    { <<"-", "-">>, <<"-", "a">>, <<"-", "a", "b">>, <<"-", "-", "a", "b">>,
      <<"-">>, <<"v">>, <<"4", "2">> }

\* /(/, which is not a regular expression
BadRegex == <<"/", "(", "/">>

\* foo:bar -abc --flag=42 -- raw value
Scenario1 ==
    << Cmd0, <<"-", "a", "b", "c">>,
       <<"-", "-", "f", "l", "a", "g", "=", "4", "2">>, <<"-", "-">>,
       <<"r", "a", "w">>, <<"v", "a", "l", "u", "e">> >>

\* the parseOptions Parse starts from, no ParseOption applied
DefaultOptions ==
    [given |-> TRUE, agnosticDashes |-> FALSE, assumeOptionArguments |-> FALSE,
     aliases |-> <<>>, hasArg |-> <<>>]

\* ParseOptionAlias("a", "ab") applied or not
Aliases == {<<>>, <<"a">> :> <<"a", "b">>}

\* ParseOptionHasArgument applied to a, to ab, to b, or not at all
HasArgs == {<<>>, <<"a">> :> TRUE, <<"a", "b">> :> TRUE, <<"b">> :> FALSE}

ParseOptionSets ==
    [given : {TRUE}, agnosticDashes : BOOLEAN, assumeOptionArguments : BOOLEAN,
     aliases : Aliases, hasArg : HasArgs]

InitCmd ==
    /\ TokensIdle
    /\ RuleIdle
    /\ StrIdle /\ RolesIdle /\ GroupsIdle
    /\ rt = NoInput /\ parsed = NoOutput
    /\ expr = NoInput /\ pex = NoOutput
    /\ cmd = NoOutput
    /\ \/ /\ tokens \in {<<Cmd0>> \o args : args \in SeqsUpTo(TokenPool, MaxArgs)}
          /\ po \in ParseOptionSets
       \/ /\ tokens \in { <<>>, Scenario1, <<<<"a", ":", "b", ":", "c">>, <<"v">>>>,
                          <<<<"b", "a", "r">>, <<"v">>>>,
                          <<<<>>>>, <<<<>>, <<"v">>>>, <<<<":">>>>,
                          <<<<"b", ":">>, <<"-", "a">>>>, <<<<":", "b">>>>,
                          <<<<":", ":">>>>,
                          <<Cmd0, BadRegex>>, <<Cmd0, <<"-", "-">>, BadRegex>>,
                          <<Cmd0, <<"-", "a">>, BadRegex>>,
                          <<Cmd0, <<"-", "a">>, <<"/", "v", "/">>, <<"t", "r", "u", "e">>,
                            <<"-", "7">>>> }
          /\ po \in {DefaultOptions, [DefaultOptions EXCEPT !.assumeOptionArguments = TRUE]}

CallCommandParse ==
    /\ cmd' = [called |-> TRUE, out |-> command_Parse(tokens, po)]
    /\ UNCHANGED <<rt, parsed, expr, pex, tokens, po, tokVars, concVars, ruleVars,
                 strVars, roleVars, groupVars>>

NextCmd == CallCommandParse

SpecCmd == InitCmd /\ [][NextCmd]_vars

----------------------------------------------------------------------------
(* Properties of the command parser under SpecCmd *)

\* the tokens after the command, and what the loop held after each of them
Args  == Tail(tokens)
Trace == cmd.out.trace

\* Parse has returned a command without an error
Parsed == cmd.called /\ cmd.out.err = Nil

\* what the loop holds before token j: nothing before the first
Before(j) ==
    IF j = 1 THEN [Options |-> <<>>, lastOption |-> <<>>, Parameters |-> <<>>]
    ELSE Trace[j - 1]

\* the inferred values of tokens, in their order
Values(ts) == [k \in 1..Len(ts) |-> Infer(ts[k]).value]

\* the name an option gets: its alias where it has one
Canonical(name) == IF name \in DOMAIN po.aliases THEN po.aliases[name] ELSE name

TrueOption(name) == [Name |-> name, Value |-> BoolVal(TRUE)]

\* C16: when the loop of Parse meets a `--` token, the tokens after it are
\* the parameters in their order and none of them is an option or an option
\* value, `--` itself is no parameter, and the options are those recorded
\* before it.
C16_TerminatorEndsOptions ==
    Parsed =>
        \A j \in 1..Len(Trace) :
            Args[j] = <<"-", "-">> =>
                /\ cmd.out.Parameters = Values(SubSeq(Args, j + 1, Len(Args)))
                /\ cmd.out.Options = Before(j).Options
                /\ Len(Trace) = j

\* `foo:bar -a -- -ab ...`: the tokens after `--` are parameters although
\* they start with a dash, and a is the only option
C16_Witness ==
    /\ Parsed /\ Len(Args) = 3
    /\ Args[1] = <<"-", "a">> /\ Args[2] = <<"-", "-">> /\ Args[3] = <<"-", "a", "b">>
    /\ po.aliases = <<>>
    /\ cmd.out.Parameters = <<StringVal(<<"-", "a", "b">>)>>
    /\ DOMAIN cmd.out.Options = {<<"a">>}

\* position of the first = of a token, 0 when it has none
FirstEquals(t) ==
    IF \E k \in 1..Len(t) : t[k] = "="
    THEN CHOOSE k \in 1..Len(t) : t[k] = "=" /\ \A h \in 1..(k - 1) : t[h] # "="
    ELSE 0

\* C17: a token `--name=value` met by the loop of Parse gives the option
\* `name` with the value inferred from `value`; `foo:bar -abc --flag=42 --
\* raw value` gives the options a, b, c = true and flag = Int(42) and the
\* parameters raw, value.
C17_LongOptionWithValue ==
    Parsed =>
        /\ \A j \in 1..Len(Trace) :
              LET t == Args[j]
                  k == FirstEquals(t)
              IN  (dashCount(t) = 2 /\ k > 3) =>
                     LET name == Canonical(SubSeq(t, 3, k - 1))
                     IN  /\ name \in DOMAIN Trace[j].Options
                         /\ Trace[j].Options[name].Value =
                               Infer(SubSeq(t, k + 1, Len(t))).value
        /\ (tokens = Scenario1 /\ po = DefaultOptions) =>
              /\ cmd.out.Options =
                    (<<"a">> :> TrueOption(<<"a">>)) @@ (<<"b">> :> TrueOption(<<"b">>))
                    @@ (<<"c">> :> TrueOption(<<"c">>))
                    @@ (<<"f", "l", "a", "g">> :>
                          [Name |-> <<"f", "l", "a", "g">>, Value |-> IntVal(42)])
              /\ cmd.out.Parameters =
                    <<StringVal(<<"r", "a", "w">>), StringVal(<<"v", "a", "l", "u", "e">>)>>

\* a token the loop takes for a value or a parameter: not `--`, not one with
\* exactly two leading dashes, and not one with exactly one leading dash and
\* at least one character after it
NonOption(t) ==
    /\ t # <<"-", "-">>
    /\ dashCount(t) # 2
    /\ ~(dashCount(t) = 1 /\ Len(t) >= 2)

\* the declaration of hasArg for the option name, or else the assumption
TakesArgument(name) ==
    IF name \in DOMAIN po.hasArg THEN po.hasArg[name] ELSE po.assumeOptionArguments

\* m with the options of the given names set to true
WithTrue(m, names) ==
    [n \in DOMAIN m \cup names |-> IF n \in names THEN TrueOption(n) ELSE m[n]]

\* C18: a token with exactly one leading dash and n >= 1 characters after
\* it, met by the loop of Parse: with agnosticDashes off it sets one option
\* to Bool(true) for each of the n characters and only the option of the last
\* character is pending, so a following token without a leading dash is bound
\* to that one where it takes an argument; with agnosticDashes on it sets the
\* one option named by all n characters.
C18_ShortOptions ==
    Parsed =>
        \A j \in 1..Len(Trace) :
            LET t == Args[j]
            IN  (dashCount(t) = 1 /\ Len(t) >= 2) =>
                  IF po.agnosticDashes
                  THEN /\ Trace[j].Options =
                             WithTrue(Before(j).Options, {Canonical(Tail(t))})
                       /\ Trace[j].lastOption = <<TrueOption(Canonical(Tail(t)))>>
                  ELSE LET last_ == Canonical(<<t[Len(t)]>>)
                       IN  /\ Trace[j].Options =
                                 WithTrue(Before(j).Options,
                                          {Canonical(<<t[k]>>) : k \in 2..Len(t)})
                           /\ Trace[j].lastOption = <<TrueOption(last_)>>
                           /\ (j < Len(Trace) /\ dashCount(Args[j + 1]) = 0
                                 /\ TakesArgument(last_)) =>
                                 Trace[j + 1].Options =
                                     [Trace[j].Options EXCEPT ![last_].Value =
                                         Infer(Args[j + 1]).value]

\* `-ab 42` with agnosticDashes off and b taking an argument: a is true and
\* b is 42
C18_Witness ==
    /\ Parsed /\ ~po.agnosticDashes /\ po.aliases = <<>>
    /\ Len(Args) = 2 /\ Args[1] = <<"-", "a", "b">> /\ Args[2] = <<"4", "2">>
    /\ DOMAIN cmd.out.Options = {<<"a">>, <<"b">>}
    /\ cmd.out.Options[<<"a">>].Value = BoolVal(TRUE)
    /\ cmd.out.Options[<<"b">>].Value = IntVal(42)
    /\ cmd.out.Parameters = <<>>

\* the option that is pending after an option token
PendingAfter(t) ==
    IF dashCount(t) = 2 THEN Canonical(SubSeq(t, 3, Len(t)))
    ELSE IF po.agnosticDashes THEN Canonical(Tail(t))
    ELSE Canonical(<<t[Len(t)]>>)

\* C19: a non-option token that the loop of Parse meets right after an option
\* token is bound as the value of the pending option, which is then no longer
\* pending, iff hasArg is declared true for that option's name after
\* aliasing, or is not declared for it and assumeOptionArguments is on;
\* otherwise this token and all after it are the parameters in their order
\* and nothing more is read as an option.
C19_ValueBinding ==
    Parsed =>
        \A j \in 2..Len(Trace) :
            (NonOption(Args[j]) /\ ~NonOption(Args[j - 1])) =>
                LET name == PendingAfter(Args[j - 1])
                IN  IF TakesArgument(name)
                    THEN /\ Trace[j].Options =
                               [Before(j).Options EXCEPT ![name].Value =
                                   Infer(Args[j]).value]
                         /\ Trace[j].lastOption = <<>>
                         /\ Trace[j].Parameters = <<>>
                    ELSE /\ cmd.out.Parameters = Values(SubSeq(Args, j, Len(Args)))
                         /\ cmd.out.Options = Before(j).Options
                         /\ Len(Trace) = j

\* C20: a token that is a single dash, met by the loop of Parse, is no option
\* token: it is bound as the value of the pending option or it is the first
\* of the parameters, and the options it leaves are those there were before.
C20_SingleDash ==
    Parsed =>
        \A j \in 1..Len(Trace) :
            Args[j] = <<"-">> =>
                /\ DOMAIN Trace[j].Options = DOMAIN Before(j).Options
                /\ \/ \E n \in DOMAIN Before(j).Options :
                         /\ Trace[j].Options =
                               [Before(j).Options EXCEPT ![n].Value = StringVal(<<"-">>)]
                         /\ Trace[j].lastOption = <<>>
                   \/ /\ cmd.out.Parameters = Values(SubSeq(Args, j, Len(Args)))
                      /\ Len(Trace) = j

\* C21: a Command that Parse returns without an error for a non-empty token
\* list has a non-empty Command name.
C21_CommandNameNonEmpty ==
    (Parsed /\ Len(tokens) >= 1) => cmd.out.Command # <<>>

\* the positions of the colons of a token
Colons(t) == {k \in 1..Len(t) : t[k] = ":"}

\* C22: Parse returns an error for the empty token list and
\* ErrInvalidBundleCommandPair for a first token with more than one colon; a
\* first token without a colon gives the empty bundle and the token as the
\* command, and one with a single colon gives the text before the colon as
\* the bundle and the text after it as the command.
C22_SplitCommand ==
    cmd.called =>
        /\ Len(tokens) = 0 => cmd.out.err = ErrEmptyTokens
        /\ Len(tokens) >= 1 =>
              LET t == tokens[1]
              IN  /\ Cardinality(Colons(t)) > 1 <=>
                        cmd.out.err = ErrInvalidBundleCommandPair
                  /\ Cardinality(Colons(t)) = 0 =>
                        (cmd.out.Bundle = <<>> /\ cmd.out.Command = t)
                  /\ Cardinality(Colons(t)) = 1 =>
                        \A k \in Colons(t) :
                            /\ cmd.out.Bundle = SubSeq(t, 1, k - 1)
                            /\ cmd.out.Command = SubSeq(t, k + 1, Len(t))

\* Parse has refused the first token `a:b:c`
C22_Witness ==
    /\ cmd.called /\ Len(tokens) >= 1
    /\ tokens[1] = <<"a", ":", "b", ":", "c">>
    /\ cmd.out.err = ErrInvalidBundleCommandPair

----------------------------------------------------------------------------
(* CommandParameters.String, and SpecString: a parameter list is drawn and  *)
(* String is applied to it.                                                 *)

DigitChar(d) ==
    CASE d = 0 -> "0" [] d = 1 -> "1" [] d = 2 -> "2" [] d = 3 -> "3"
      [] d = 4 -> "4" [] d = 5 -> "5" [] d = 6 -> "6" [] d = 7 -> "7"
      [] d = 8 -> "8" [] d = 9 -> "9"

\* the decimal digits of a number n >= 0
RECURSIVE DecimalDigits(_)
DecimalDigits(n) ==
    IF n < 10 THEN <<DigitChar(n)>>
    ELSE Append(DecimalDigits(n \div 10), DigitChar(n % 10))

\* fmt.Sprintf("%v", v): the text of a value
Render(v) ==
    CASE v.kind = "Int" ->
             IF v.v < 0 THEN <<"-">> \o DecimalDigits(0 - v.v) ELSE DecimalDigits(v.v)
      [] v.kind = "Bool" ->
             IF v.v THEN <<"t", "r", "u", "e">> ELSE <<"f", "a", "l", "s", "e">>
      [] OTHER -> v.v

\* for i := 0; i < len(c); i++: a space and the text of c[i], the index
\* counted from 1 here
RECURSIVE StringLoop(_, _, _)
StringLoop(c, i, b) ==
    IF i > Len(c) THEN b
    ELSE StringLoop(c, i + 1, b \o <<" ">> \o Render(c[i]))

CommandParameters_String(c) ==
    IF Len(c) = 0 THEN <<>>
    ELSE StringLoop(c, 1, Render(c[1]))

\* the values the parameters are drawn from
ParameterValues ==
    << IntVal(42), IntVal(0 - 7), BoolVal(TRUE), StringVal(<<"v">>),
       StringVal(<<"r", "a", "w">>) >>

InitString ==
    /\ TokensIdle
    /\ RuleIdle
    /\ ParseIdle
    /\ RolesIdle /\ GroupsIdle
    /\ rendered = NoOutput
    /\ \E ix \in SeqsUpTo(DOMAIN ParameterValues, MaxArgs) :
          params = [given |-> TRUE,
                    c     |-> [k \in DOMAIN ix |-> ParameterValues[ix[k]]]]

CallString ==
    /\ rendered' = [called |-> TRUE, out |-> CommandParameters_String(params.c)]
    /\ UNCHANGED <<params, tokVars, concVars, ruleVars, parseVars, roleVars, groupVars>>

NextString == CallString

SpecString == InitString /\ [][NextString]_vars

\* the pieces of a text between its spaces, the empty ones left out
RECURSIVE SpaceSeparated(_, _)
SpaceSeparated(str, cur) ==
    IF Len(str) = 0 THEN IF cur = <<>> THEN <<>> ELSE <<cur>>
    ELSE IF str[1] = " "
         THEN (IF cur = <<>> THEN <<>> ELSE <<cur>>) \o SpaceSeparated(Tail(str), <<>>)
         ELSE SpaceSeparated(Tail(str), Append(cur, str[1]))

\* C23: String renders each parameter once, in order, with single spaces
\* between them: the pieces of the text between the spaces, inferred again,
\* are the parameter list String was given.
C23_ParametersRoundTrip ==
    rendered.called =>
        /\ InferAll(SpaceSeparated(rendered.out, <<>>)).err = Nil
        /\ InferAll(SpaceSeparated(rendered.out, <<>>)).values = params.c

----------------------------------------------------------------------------
(* The in-memory role store.  A role name is a string; a bundle name and a  *)
(* permission name are the sequences of their characters, so that           *)
(* "bundle:permission" can be compared as a string.  Every operator takes   *)
(* the map da.roles and gives back the map it leaves.                       *)

ErrEmptyRoleName  == "ErrEmptyRoleName"
ErrRoleExists     == "ErrRoleExists"
ErrNoSuchRole     == "ErrNoSuchRole"
ErrEmptyGroupName == "ErrEmptyGroupName"
ErrNoSuchGroup    == "ErrNoSuchGroup"

\* rest.Role{}
ZeroRole == [Name |-> "", Permissions |-> <<>>, Groups |-> <<>>]

RolePermission(bundle, permission) == [BundleName |-> bundle, Permission |-> permission]

\* RolePermission.String: bundle:permission
PermissionString(x) == x.BundleName \o <<":">> \o x.Permission

\* the byte of a character
CharCode(ch) ==
    CASE ch = "-" -> 45 [] ch = ":" -> 58 [] ch = "a" -> 97 [] ch = "b" -> 98
      [] ch = "z" -> 122

\* the < of Go strings: the first differing byte decides, a proper prefix is
\* smaller
RECURSIVE StringLess(_, _)
StringLess(x, y) ==
    IF Len(y) = 0 THEN FALSE
    ELSE IF Len(x) = 0 THEN TRUE
    ELSE IF x[1] = y[1] THEN StringLess(Tail(x), Tail(y))
    ELSE CharCode(x[1]) < CharCode(y[1])

\* x put into the sorted list at its place
RECURSIVE SortInsert(_, _)
SortInsert(x, sorted) ==
    IF Len(sorted) = 0 THEN <<x>>
    ELSE IF StringLess(PermissionString(x), PermissionString(sorted[1]))
         THEN <<x>> \o sorted
         ELSE <<sorted[1]>> \o SortInsert(x, Tail(sorted))

\* sort.Slice(perms, perms[i].String() < perms[j].String())
RECURSIVE SortSlice(_)
SortSlice(perms) ==
    IF Len(perms) = 0 THEN <<>>
    ELSE SortInsert(perms[1], SortSlice(Tail(perms)))

RoleCreate(rs, name) ==
    IF name = "" THEN [err |-> ErrEmptyRoleName, roles |-> rs]
    ELSE IF name \in DOMAIN rs THEN [err |-> ErrRoleExists, roles |-> rs]
    ELSE [err |-> Nil,
          roles |-> MapPut(rs, name, [ZeroRole EXCEPT !.Name = name])]

RoleDelete(rs, name) ==
    IF name = "" THEN [err |-> ErrEmptyRoleName, roles |-> rs]
    ELSE IF name \notin DOMAIN rs THEN [err |-> ErrNoSuchRole, roles |-> rs]
    ELSE [err |-> Nil, roles |-> MapDelete(rs, name)]

RoleExists(rs, name) ==
    IF name = "" THEN [result |-> FALSE, err |-> ErrEmptyRoleName, roles |-> rs]
    ELSE [result |-> name \in DOMAIN rs, err |-> Nil, roles |-> rs]

RoleGet(rs, rolename) ==
    IF rolename = "" THEN [result |-> ZeroRole, err |-> ErrEmptyRoleName, roles |-> rs]
    ELSE IF rolename \notin DOMAIN rs
         THEN [result |-> ZeroRole, err |-> ErrNoSuchRole, roles |-> rs]
         ELSE [result |-> rs[rolename], err |-> Nil, roles |-> rs]

\* role.Permissions = append(role.Permissions, ...)
RoleGrantPermission(rs, rolename, bundle, permission) ==
    IF rolename \notin DOMAIN rs THEN [err |-> ErrNoSuchRole, roles |-> rs]
    ELSE [err |-> Nil,
          roles |-> [rs EXCEPT ![rolename].Permissions =
                        Append(@, RolePermission(bundle, permission))]]

\* the permissions of the list other than bundle:permission, in their order
RECURSIVE Without(_, _, _)
Without(perms, bundle, permission) ==
    IF Len(perms) = 0 THEN <<>>
    ELSE IF perms[1].BundleName = bundle /\ perms[1].Permission = permission
         THEN Without(Tail(perms), bundle, permission)
         ELSE <<perms[1]>> \o Without(Tail(perms), bundle, permission)

RoleRevokePermission(rs, rolename, bundle, permission) ==
    IF rolename \notin DOMAIN rs THEN [err |-> ErrNoSuchRole, roles |-> rs]
    ELSE [err |-> Nil,
          roles |-> [rs EXCEPT ![rolename].Permissions =
                        Without(@, bundle, permission)]]

RolePermissionAdd(rs, rolename, bundlename, permission) ==
    IF rolename \notin DOMAIN rs THEN [err |-> ErrNoSuchRole, roles |-> rs]
    ELSE [err |-> Nil,
          roles |-> [rs EXCEPT ![rolename].Permissions =
                        Append(@, RolePermission(bundlename, permission))]]

RolePermissionDelete(rs, rolename, bundlename, permission) ==
    IF rolename \notin DOMAIN rs THEN [err |-> ErrNoSuchRole, roles |-> rs]
    ELSE [err |-> Nil,
          roles |-> [rs EXCEPT ![rolename].Permissions =
                        Without(@, bundlename, permission)]]

\* mutant: the permissions are returned in the order they are stored in
RolePermissionList_Unsorted(rs, rolename) ==
    IF RoleGet(rs, rolename).err # Nil
    THEN [result |-> <<>>, err |-> RoleGet(rs, rolename).err, roles |-> rs]
    ELSE [result |-> rs[rolename].Permissions, err |-> Nil, roles |-> rs]

\* perms := role.Permissions is the slice of the stored role, its elements
\* shared with it: sort.Slice sorts the stored permissions in place
RolePermissionList(rs, rolename) ==
    IF RoleGet(rs, rolename).err # Nil
    THEN [result |-> <<>>, err |-> RoleGet(rs, rolename).err, roles |-> rs]
    ELSE [result |-> SortSlice(RoleGet(rs, rolename).result.Permissions),
          err    |-> Nil,
          roles  |-> [rs EXCEPT ![rolename].Permissions = SortSlice(@)]]

RolePermissionExists(rs, rolename, bundlename, permission) ==
    LET l == RolePermissionList(rs, rolename)
    IN  IF l.err # Nil THEN [result |-> FALSE, err |-> l.err, roles |-> l.roles]
        ELSE [result |-> \E i \in 1..Len(l.result) :
                            /\ l.result[i].BundleName = bundlename
                            /\ l.result[i].Permission = permission,
              err    |-> Nil,
              roles  |-> l.roles]

\* the roles in the order the map is ranged over, which is any: as a set
RoleList(rs) == [result |-> {rs[n] : n \in DOMAIN rs}, err |-> Nil, roles |-> rs]

RoleGroupList(rs, rolename) ==
    IF rolename \notin DOMAIN rs
    THEN [result |-> <<>>, err |-> ErrNoSuchRole, roles |-> rs]
    ELSE [result |-> rs[rolename].Groups, err |-> Nil, roles |-> rs]

\* da.GroupExists
GroupExists(gs, groupname) ==
    IF groupname = "" THEN [result |-> FALSE, err |-> ErrEmptyGroupName]
    ELSE [result |-> groupname \in DOMAIN gs, err |-> Nil]

RoleGroupExists(rs, gs, rolename, groupname) ==
    LET l == RoleGroupList(rs, rolename)
        e == GroupExists(gs, groupname)
    IN  IF l.err # Nil THEN [result |-> FALSE, err |-> l.err, roles |-> rs]
        ELSE IF e.err # Nil THEN [result |-> FALSE, err |-> e.err, roles |-> rs]
        ELSE IF ~e.result THEN [result |-> FALSE, err |-> ErrNoSuchGroup, roles |-> rs]
        ELSE [result |-> \E i \in 1..Len(l.result) : l.result[i].Name = groupname,
              err    |-> Nil,
              roles  |-> rs]

----------------------------------------------------------------------------
(* SpecRole: the calls of the role store, each one atomic.                  *)

\* length of a role's permission list
MaxPerms == 3

\* the role names given to the calls: the empty name and one other
RoleNames == {"", "r"}

\* the bundles a and a-, and the permissions b and z
BundleNames == {<<"a">>, <<"a", "-">>}
PermNames   == {<<"b">>, <<"z">>}

\* the one group of the store, and the group names given to the calls
GroupNames == {"", "g", "h"}
OneGroup   == "g" :> [Name |-> "g", Users |-> {}, Roles |-> <<>>]

InitRole ==
    /\ TokensIdle
    /\ RuleIdle
    /\ ParseIdle
    /\ StrIdle
    /\ roles = <<>> /\ granted = <<>> /\ rlast = NoOutput /\ rprocs = <<>>
    /\ groups = OneGroup /\ glast = NoOutput

\* the record of a call, with the store it found
RoleCall(op, n, b, p, err, result) ==
    [called |-> TRUE, op |-> op, rolename |-> n, bundle |-> b,
     permission |-> p, err |-> err, result |-> result, before |-> roles]

RoleFrame == UNCHANGED <<rprocs, groupVars, tokVars, concVars, ruleVars, parseVars, strVars>>

\* the history after a grant and after a revoke that returned err
Granted(n, b, p, err) ==
    IF err = Nil THEN [granted EXCEPT ![n] = @ \cup {RolePermission(b, p)}] ELSE granted
Revoked(n, b, p, err) ==
    IF err = Nil THEN [granted EXCEPT ![n] = @ \ {RolePermission(b, p)}] ELSE granted

\* the permission list of role n has room for one more
HasRoom(n) == n \in DOMAIN roles => Len(roles[n].Permissions) < MaxPerms

CallRoleCreate(n) ==
    LET r == RoleCreate(roles, n)
    IN  /\ roles' = r.roles
        /\ granted' = IF r.err = Nil THEN MapPut(granted, n, {}) ELSE granted
        /\ rlast' = RoleCall("RoleCreate", n, <<>>, <<>>, r.err, TRUE)
        /\ RoleFrame

CallRoleDelete(n) ==
    LET r == RoleDelete(roles, n)
    IN  /\ roles' = r.roles
        /\ granted' = IF r.err = Nil THEN MapDelete(granted, n) ELSE granted
        /\ rlast' = RoleCall("RoleDelete", n, <<>>, <<>>, r.err, TRUE)
        /\ RoleFrame

CallRoleExists(n) ==
    LET r == RoleExists(roles, n)
    IN  /\ roles' = r.roles
        /\ rlast' = RoleCall("RoleExists", n, <<>>, <<>>, r.err, r.result)
        /\ UNCHANGED granted
        /\ RoleFrame

CallRoleGet(n) ==
    LET r == RoleGet(roles, n)
    IN  /\ roles' = r.roles
        /\ rlast' = RoleCall("RoleGet", n, <<>>, <<>>, r.err, r.result)
        /\ UNCHANGED granted
        /\ RoleFrame

CallRoleGrantPermission(n, b, p) ==
    /\ HasRoom(n)
    /\ LET r == RoleGrantPermission(roles, n, b, p)
       IN  /\ roles' = r.roles
           /\ granted' = Granted(n, b, p, r.err)
           /\ rlast' = RoleCall("RoleGrantPermission", n, b, p, r.err, TRUE)
           /\ RoleFrame

CallRoleRevokePermission(n, b, p) ==
    LET r == RoleRevokePermission(roles, n, b, p)
    IN  /\ roles' = r.roles
        /\ granted' = Revoked(n, b, p, r.err)
        /\ rlast' = RoleCall("RoleRevokePermission", n, b, p, r.err, TRUE)
        /\ RoleFrame

CallRolePermissionAdd(n, b, p) ==
    /\ HasRoom(n)
    /\ LET r == RolePermissionAdd(roles, n, b, p)
       IN  /\ roles' = r.roles
           /\ granted' = Granted(n, b, p, r.err)
           /\ rlast' = RoleCall("RolePermissionAdd", n, b, p, r.err, TRUE)
           /\ RoleFrame

CallRolePermissionDelete(n, b, p) ==
    LET r == RolePermissionDelete(roles, n, b, p)
    IN  /\ roles' = r.roles
        /\ granted' = Revoked(n, b, p, r.err)
        /\ rlast' = RoleCall("RolePermissionDelete", n, b, p, r.err, TRUE)
        /\ RoleFrame

CallRolePermissionList(n) ==
    LET r == RolePermissionList(roles, n)
    IN  /\ roles' = r.roles
        /\ rlast' = RoleCall("RolePermissionList", n, <<>>, <<>>, r.err, r.result)
        /\ UNCHANGED granted
        /\ RoleFrame

CallRolePermissionExists(n, b, p) ==
    LET r == RolePermissionExists(roles, n, b, p)
    IN  /\ roles' = r.roles
        /\ rlast' = RoleCall("RolePermissionExists", n, b, p, r.err, r.result)
        /\ UNCHANGED granted
        /\ RoleFrame

CallRoleList ==
    LET r == RoleList(roles)
    IN  /\ roles' = r.roles
        /\ rlast' = RoleCall("RoleList", "", <<>>, <<>>, r.err, r.result)
        /\ UNCHANGED granted
        /\ RoleFrame

CallRoleGroupList(n) ==
    LET r == RoleGroupList(roles, n)
    IN  /\ roles' = r.roles
        /\ rlast' = RoleCall("RoleGroupList", n, <<>>, <<>>, r.err, r.result)
        /\ UNCHANGED granted
        /\ RoleFrame

CallRoleGroupExists(n, g) ==
    LET r == RoleGroupExists(roles, groups, n, g)
    IN  /\ roles' = r.roles
        /\ rlast' = RoleCall("RoleGroupExists", n, g, <<>>, r.err, r.result)
        /\ UNCHANGED granted
        /\ RoleFrame

NextRole ==
    \/ \E n \in RoleNames : CallRoleCreate(n)
    \/ \E n \in RoleNames : CallRoleDelete(n)
    \/ \E n \in RoleNames : CallRoleExists(n)
    \/ \E n \in RoleNames : CallRoleGet(n)
    \/ \E n \in RoleNames, b \in BundleNames, p \in PermNames :
          CallRoleGrantPermission(n, b, p)
    \/ \E n \in RoleNames, b \in BundleNames, p \in PermNames :
          CallRoleRevokePermission(n, b, p)
    \/ \E n \in RoleNames, b \in BundleNames, p \in PermNames :
          CallRolePermissionAdd(n, b, p)
    \/ \E n \in RoleNames, b \in BundleNames, p \in PermNames :
          CallRolePermissionDelete(n, b, p)
    \/ \E n \in RoleNames : CallRolePermissionList(n)
    \/ \E n \in RoleNames, b \in BundleNames, p \in PermNames :
          CallRolePermissionExists(n, b, p)
    \/ CallRoleList
    \/ \E n \in RoleNames : CallRoleGroupList(n)
    \/ \E n \in RoleNames, g \in GroupNames : CallRoleGroupExists(n, g)

SpecRole == InitRole /\ [][NextRole]_vars

\* the calls of the role store that name a role
RoleNamingOps ==
    {"RoleCreate", "RoleDelete", "RoleExists", "RoleGet", "RoleGrantPermission",
     "RoleRevokePermission", "RolePermissionAdd", "RolePermissionDelete",
     "RolePermissionList", "RolePermissionExists", "RoleGroupList",
     "RoleGroupExists"}

\* C24: every call of the role store that names a role returns
\* ErrEmptyRoleName when the name is empty, and when the name is not empty and
\* the role does not exist it returns ErrNoSuchRole (RoleCreate, which creates
\* the role, and RoleExists, which answers false, set aside).
C24_RoleNameErrors ==
    (rlast.called /\ rlast.op \in RoleNamingOps) =>
        /\ rlast.rolename = "" => rlast.err = ErrEmptyRoleName
        /\ ( /\ rlast.rolename # ""
             /\ rlast.rolename \notin DOMAIN rlast.before
             /\ rlast.op \notin {"RoleCreate", "RoleExists"} )
           => rlast.err = ErrNoSuchRole

\* the permissions of a list, as a set
PermSet(perms) == {perms[i] : i \in 1..Len(perms)}

\* the last call granted a permission and succeeded
GrantDone ==
    /\ rlast.called
    /\ rlast.op \in {"RoleGrantPermission", "RolePermissionAdd"}
    /\ rlast.err = Nil

\* C25: granting a role a permission it was already granted leaves the stored
\* permissions of the role, and so what RolePermissionList and RoleGet return,
\* as they were after the first grant.
C25_GrantIdempotent ==
    ( /\ GrantDone
      /\ RolePermission(rlast.bundle, rlast.permission)
            \in PermSet(rlast.before[rlast.rolename].Permissions) )
    => /\ roles[rlast.rolename].Permissions = rlast.before[rlast.rolename].Permissions
       /\ RolePermissionList(roles, rlast.rolename).result
            = RolePermissionList(rlast.before, rlast.rolename).result
       /\ RoleGet(roles, rlast.rolename).result = RoleGet(rlast.before, rlast.rolename).result

\* the list is in non-decreasing order of bundle:permission
NonDecreasing(perms) ==
    \A i \in 1..Len(perms) - 1 :
        ~StringLess(PermissionString(perms[i + 1]), PermissionString(perms[i]))

\* the last call was op and succeeded
RoleDone(op) == rlast.called /\ rlast.op = op /\ rlast.err = Nil

\* C26: RolePermissionList returns exactly the pairs granted to the role and
\* not revoked since, in non-decreasing order of bundle:permission, and
\* RolePermissionExists answers true exactly for the pairs of that list.
C26_PermissionList ==
    /\ RoleDone("RolePermissionList") =>
          /\ PermSet(rlast.result) = granted[rlast.rolename]
          /\ NonDecreasing(rlast.result)
    /\ RoleDone("RolePermissionExists") =>
          /\ rlast.result <=> RolePermission(rlast.bundle, rlast.permission)
                                 \in granted[rlast.rolename]
          /\ rlast.result <=> RolePermission(rlast.bundle, rlast.permission)
                                 \in PermSet(RolePermissionList(rlast.before, rlast.rolename).result)

\* a list of two different permissions was returned, in another order than
\* the one they were stored in
C26_Witness ==
    /\ RoleDone("RolePermissionList")
    /\ Len(rlast.result) = 2
    /\ rlast.result # rlast.before[rlast.rolename].Permissions
    /\ rlast.result[1] # rlast.result[2]

\* the calls of the role store that return a list
ListOps == {"RolePermissionList", "RoleGroupList", "RoleList", "RoleGet"}

\* C27: the calls that return a list leave the store as it was, the stored
\* order of a role's permissions included.
C27_ListsLeaveStore ==
    (rlast.called /\ rlast.op \in ListOps) => roles = rlast.before

----------------------------------------------------------------------------
(* SpecRoleConc: two calls that grant role r a permission, run at once. The *)
(* store takes no lock: a call reads the role's permission list and then    *)
(* writes the list with its permission appended, and the other call may run *)
(* between the two.                                                         *)

RoleProcs == {1, 2}

\* the role the two calls name
SharedRole == "r"

InitRoleConc ==
    /\ TokensIdle
    /\ RuleIdle
    /\ ParseIdle
    /\ StrIdle
    /\ GroupsIdle
    /\ rlast = NoOutput
    /\ \E perms \in SeqsUpTo({RolePermission(b, p) : b \in BundleNames, p \in PermNames},
                             MaxPerms - 2) :
          /\ roles = SharedRole :> [ZeroRole EXCEPT !.Name = SharedRole,
                                                    !.Permissions = perms]
          /\ granted = SharedRole :> PermSet(perms)
    /\ \E ops \in [RoleProcs -> {"RoleGrantPermission", "RolePermissionAdd"}],
          bs \in [RoleProcs -> BundleNames], ps \in [RoleProcs -> PermNames] :
          /\ <<bs[1], ps[1]>> # <<bs[2], ps[2]>>
          /\ rprocs = [i \in RoleProcs |->
                          [op |-> ops[i], rolename |-> SharedRole, bundle |-> bs[i],
                           permission |-> ps[i], pc |-> "start", perms |-> <<>>,
                           err |-> Nil]]

RoleConcFrame == UNCHANGED <<rlast, groupVars, tokVars, concVars, ruleVars, parseVars, strVars>>

\* role, ok := da.roles[rolename], and the list append is given: the same
\* step in RoleGrantPermission and in RolePermissionAdd
ReadPermissions(i) ==
    /\ rprocs[i].pc = "start"
    /\ IF rprocs[i].rolename \notin DOMAIN roles
       THEN rprocs' = [rprocs EXCEPT ![i].pc = "done", ![i].err = ErrNoSuchRole]
       ELSE rprocs' = [rprocs EXCEPT ![i].pc = "read",
                                     ![i].perms = roles[rprocs[i].rolename].Permissions]
    /\ UNCHANGED <<roles, granted>>
    /\ RoleConcFrame

\* role.Permissions = the list append returns
WritePermissions(i) ==
    /\ rprocs[i].pc = "read"
    /\ roles' = [roles EXCEPT ![rprocs[i].rolename].Permissions =
                    Append(rprocs[i].perms,
                           RolePermission(rprocs[i].bundle, rprocs[i].permission))]
    /\ granted' = Granted(rprocs[i].rolename, rprocs[i].bundle, rprocs[i].permission, Nil)
    /\ rprocs' = [rprocs EXCEPT ![i].pc = "done"]
    /\ RoleConcFrame

NextRoleConc ==
    \/ \E i \in RoleProcs : ReadPermissions(i)
    \/ \E i \in RoleProcs : WritePermissions(i)

SpecRoleConc == InitRoleConc /\ [][NextRoleConc]_vars

\* the two calls have returned without error
BothGranted == \A i \in RoleProcs : rprocs[i].pc = "done" /\ rprocs[i].err = Nil

\* C28: when two calls granting different permissions to the same role have
\* both returned, the role holds both permissions.
C28_ConcurrentGrants ==
    (rprocs # <<>> /\ BothGranted) =>
        \A i \in RoleProcs :
            RolePermission(rprocs[i].bundle, rprocs[i].permission)
                \in PermSet(roles[SharedRole].Permissions)

----------------------------------------------------------------------------
(* The in-memory group store: da.groups, a map from a group's name to the   *)
(* group, whose Users are the usernames of its members. A user is one of    *)
(* da.users.                                                                *)

ErrGroupExists == "ErrGroupExists"

\* rest.Group{}
ZeroGroup == [Name |-> "", Users |-> {}, Roles |-> <<>>]

GroupCreate(gs, name) ==
    IF name = "" THEN [err |-> ErrEmptyGroupName, groups |-> gs]
    ELSE IF name \in DOMAIN gs THEN [err |-> ErrGroupExists, groups |-> gs]
    ELSE [err |-> Nil, groups |-> MapPut(gs, name, [ZeroGroup EXCEPT !.Name = name])]

GroupDelete(gs, name) ==
    IF name = "" THEN [err |-> ErrEmptyGroupName, groups |-> gs]
    ELSE IF name \notin DOMAIN gs THEN [err |-> ErrNoSuchGroup, groups |-> gs]
    ELSE [err |-> Nil, groups |-> MapDelete(gs, name)]

GroupGet(gs, name) ==
    IF name = "" THEN [result |-> ZeroGroup, err |-> ErrEmptyGroupName, groups |-> gs]
    ELSE IF name \notin DOMAIN gs
         THEN [result |-> ZeroGroup, err |-> ErrNoSuchGroup, groups |-> gs]
         ELSE [result |-> gs[name], err |-> Nil, groups |-> gs]

\* mutant: the user is not looked up
GroupAddUser_AnyUser(gs, us, groupname, username) ==
    IF groupname \notin DOMAIN gs THEN [err |-> ErrNoSuchGroup, groups |-> gs]
    ELSE [err |-> Nil, groups |-> [gs EXCEPT ![groupname].Users = @ \cup {username}]]

\* mutant: a user who is in the group already is taken out of it
GroupAddUser_Toggle(gs, us, groupname, username) ==
    IF groupname \notin DOMAIN gs THEN [err |-> ErrNoSuchGroup, groups |-> gs]
    ELSE IF username \notin us THEN [err |-> ErrNoSuchUser, groups |-> gs]
    ELSE IF username \in gs[groupname].Users
         THEN [err |-> Nil, groups |-> [gs EXCEPT ![groupname].Users = @ \ {username}]]
         ELSE [err |-> Nil, groups |-> [gs EXCEPT ![groupname].Users = @ \cup {username}]]

\* the group is looked up first, then the user
GroupAddUser(gs, us, groupname, username) ==
    IF groupname \notin DOMAIN gs THEN [err |-> ErrNoSuchGroup, groups |-> gs]
    ELSE IF username \notin us THEN [err |-> ErrNoSuchUser, groups |-> gs]
    ELSE [err |-> Nil, groups |-> [gs EXCEPT ![groupname].Users = @ \cup {username}]]

GroupRemoveUser(gs, groupname, username) ==
    IF groupname \notin DOMAIN gs THEN [err |-> ErrNoSuchGroup, groups |-> gs]
    ELSE [err |-> Nil, groups |-> [gs EXCEPT ![groupname].Users = @ \ {username}]]

----------------------------------------------------------------------------
(* SpecGroup: the calls of the group store, each one atomic, and the        *)
(* creation of users.                                                       *)

InitGroup ==
    /\ TokensIdle
    /\ RuleIdle
    /\ ParseIdle
    /\ StrIdle
    /\ RolesIdle
    /\ GroupsIdle

\* the record of a call, with the groups and the users it found
GroupCall(op, g, u, err, result) ==
    [called |-> TRUE, op |-> op, groupname |-> g, username |-> u, err |-> err,
     result |-> result, before |-> groups, users |-> users]

GroupFrame == UNCHANGED <<tokVars, concVars, ruleVars, parseVars, strVars, roleVars>>

CallGroupCreate(g) ==
    LET r == GroupCreate(groups, g)
    IN  /\ groups' = r.groups
        /\ glast' = GroupCall("GroupCreate", g, "", r.err, ZeroGroup)
        /\ GroupFrame

CallGroupDelete(g) ==
    LET r == GroupDelete(groups, g)
    IN  /\ groups' = r.groups
        /\ glast' = GroupCall("GroupDelete", g, "", r.err, ZeroGroup)
        /\ GroupFrame

CallGroupGet(g) ==
    LET r == GroupGet(groups, g)
    IN  /\ groups' = r.groups
        /\ glast' = GroupCall("GroupGet", g, "", r.err, r.result)
        /\ GroupFrame

CallGroupAddUser(g, u) ==
    LET r == GroupAddUser(groups, users, g, u)
    IN  /\ groups' = r.groups
        /\ glast' = GroupCall("GroupAddUser", g, u, r.err, ZeroGroup)
        /\ GroupFrame

CallGroupRemoveUser(g, u) ==
    LET r == GroupRemoveUser(groups, g, u)
    IN  /\ groups' = r.groups
        /\ glast' = GroupCall("GroupRemoveUser", g, u, r.err, ZeroGroup)
        /\ GroupFrame

NextGroup ==
    \/ \E u \in Usernames : UserCreate(u)
    \/ \E g \in GroupNames : CallGroupCreate(g)
    \/ \E g \in GroupNames : CallGroupDelete(g)
    \/ \E g \in GroupNames : CallGroupGet(g)
    \/ \E g \in GroupNames, u \in Usernames : CallGroupAddUser(g, u)
    \/ \E g \in GroupNames, u \in Usernames : CallGroupRemoveUser(g, u)

SpecGroup == InitGroup /\ [][NextGroup]_vars

\* the last call of the group store was op
GroupOp(op) == glast.called /\ glast.op = op

\* the Users GroupGet returns for the group
UsersOf(gs, g) == GroupGet(gs, g).result.Users

\* what GroupAddUser and a successful GroupRemoveUser have returned and done
AddUserOutcome ==
    /\ GroupOp("GroupAddUser") =>
          /\ glast.groupname \notin DOMAIN glast.before
                => (glast.err # Nil /\ groups = glast.before)
          /\ (glast.groupname \in DOMAIN glast.before /\ glast.username \notin glast.users)
                => (glast.err # Nil /\ groups = glast.before)
          /\ (glast.groupname \in DOMAIN glast.before /\ glast.username \in glast.users)
                => (glast.err = Nil /\ glast.username \in UsersOf(groups, glast.groupname))
    /\ (GroupOp("GroupRemoveUser") /\ glast.err = Nil)
          => glast.username \notin UsersOf(groups, glast.groupname)

\* a member of a group that stays is a member after the step, unless the step
\* is a successful GroupRemoveUser of that member from that group
MemberUntilRemoved ==
    \A g \in DOMAIN groups, u \in Usernames :
        (u \in groups[g].Users /\ g \in DOMAIN groups' /\ u \notin groups'[g].Users)
        => /\ glast'.op = "GroupRemoveUser" /\ glast'.err = Nil
           /\ glast'.groupname = g /\ glast'.username = u

\* C29: GroupAddUser returns an error and changes nothing when the group does
\* not exist and when the group exists but the user does not; when both exist
\* it succeeds and the Users of GroupGet hold the user, from then until a
\* GroupRemoveUser of the user from the group succeeds, after which they do
\* not.
C29_GroupAddUser == []AddUserOutcome /\ [][MemberUntilRemoved]_vars

\* a member of a group has been removed from it
C29_Witness ==
    /\ GroupOp("GroupRemoveUser")
    /\ glast.err = Nil
    /\ glast.username \in UsersOf(glast.before, glast.groupname)
    /\ glast.username \notin UsersOf(groups, glast.groupname)

\* the last call added to a group a user who was a member of it already
AddedAgain ==
    /\ GroupOp("GroupAddUser")
    /\ glast.groupname \in DOMAIN glast.before
    /\ glast.username \in glast.users
    /\ glast.username \in glast.before[glast.groupname].Users

----------------------------------------------------------------------------
(* The two token indexes *)

\* every token of the first index is in the second under its own key
ByUserInByValue ==
    \A u \in DOMAIN tokensByUser :
        /\ tokensByUser[u].User = u
        /\ tokensByUser[u].Token \in DOMAIN tokensByValue
        /\ tokensByValue[tokensByUser[u].Token] = tokensByUser[u]

ByValueInByUser ==
    \A v \in DOMAIN tokensByValue :
        /\ tokensByValue[v].Token = v
        /\ tokensByValue[v].User \in DOMAIN tokensByUser
        /\ tokensByUser[tokensByValue[v].User] = tokensByValue[v]

\* C32: with the calls executed one at a time the two indexes agree:
\* tokensByUser[u] holds t exactly when tokensByValue[t.Token] holds the same
\* t with t.User = u, and no token is in one index and not in the other.
C32_IndexesAgree == ByUserInByValue /\ ByValueInByUser

\* a token has been invalidated while another user's token stays in both
\* indexes
C32_Witness ==
    /\ last.op = "TokenInvalidate"
    /\ last.err = Nil
    /\ \E u \in DOMAIN tokensByUser : tokensByUser[u].Token # last.tokenString
    /\ \E i \in issued : i.Token = last.tokenString /\ i.User \notin DOMAIN tokensByUser

----------------------------------------------------------------------------
(* Rule.Allowed as a function of the permission list *)

\* the permission lists Allowed is compared on: up to MaxLen names, in every
\* order and with repetitions
PermissionLists == SeqsUpTo(PermissionNames, MaxLen)

\* the names of a permission list
NameSet(perms) == {perms[i] : i \in 1..Len(perms)}

\* C33: Allowed is monotone in the permission list and reads it as a set: if
\* Allowed is true for a list it is true for every list that holds all its
\* names, and lists of the same names, in any order and with any repetitions,
\* give the same result.
C33_AllowedMonotone ==
    out.op = "Allowed" =>
        \A Q \in PermissionLists :
            /\ (out.result /\ NameSet(permissions) \subseteq NameSet(Q))
                  => Allowed(rule, Q)
            /\ NameSet(Q) = NameSet(permissions) => Allowed(rule, Q) = out.result

\* a rule of three permissions, one joined by Or and one by And, is allowed
\* for a list of one name, and not for the empty list
C33_Witness ==
    /\ out.op = "Allowed"
    /\ out.result
    /\ Len(rule.Permissions) = 3
    /\ rule.Permissions[2].Condition = Or
    /\ rule.Permissions[3].Condition = And
    /\ Len(permissions) = 1
    /\ ~Allowed(rule, <<>>)

----------------------------------------------------------------------------
(* Elements whose join is Undefined *)

\* the list without its element at position i
RemoveAt(list, i) == SubSeq(list, 1, i - 1) \o SubSeq(list, i + 1, Len(list))

\* C34: an element after the first whose join is Undefined has no effect on
\* the result of Allowed and of Matches, which is that of the rule without
\* the element, and Matches does not evaluate it.
C34_UndefinedJoinSkipped ==
    /\ out.op = "Matches" =>
          \A i \in 2..Len(rule.Conditions) :
              rule.Conditions[i].Condition = Undefined =>
                  /\ \A k \in 1..Len(out.calls) : out.calls[k] # i
                  /\ out.result =
                        Matches([rule EXCEPT !.Conditions = RemoveAt(@, i)], env).result
    /\ out.op = "Allowed" =>
          \A i \in 2..Len(rule.Permissions) :
              rule.Permissions[i].Condition = Undefined =>
                  out.result =
                      Allowed([rule EXCEPT !.Permissions = RemoveAt(@, i)], permissions)

\* Matches has returned true for three conditions of which the second is
\* false and has the join Undefined: the first and the third were evaluated
C34_Witness ==
    /\ out.op = "Matches"
    /\ Len(rule.Conditions) = 3
    /\ rule.Conditions[2].Condition = Undefined
    /\ ~CondVals[2]
    /\ out.calls = <<1, 3>>
    /\ out.result

----------------------------------------------------------------------------
(* The roles of a group: Roles holds the names of the roles granted to the  *)
(* group, in the order of the grants; GroupListRoles reads the roles        *)
(* themselves from da.roles.                                                *)

\* the role names of the calls, in ascending order
SortedRoleNames == <<"q", "r", "s">>
NameRank(n) == CHOOSE i \in DOMAIN SortedRoleNames : SortedRoleNames[i] = n
NameLess(x, y) == NameRank(x) < NameRank(y)

\* the name put into the sorted list at its place
RECURSIVE NameInsert(_, _)
NameInsert(x, sorted) ==
    IF Len(sorted) = 0 THEN <<x>>
    ELSE IF NameLess(x, sorted[1]) THEN <<x>> \o sorted
    ELSE <<sorted[1]>> \o NameInsert(x, Tail(sorted))

RECURSIVE SortNames(_)
SortNames(names) ==
    IF Len(names) = 0 THEN <<>>
    ELSE NameInsert(names[1], SortNames(Tail(names)))

\* the names of the list other than n, in their order
RECURSIVE WithoutName(_, _)
WithoutName(names, n) ==
    IF Len(names) = 0 THEN <<>>
    ELSE IF names[1] = n THEN WithoutName(Tail(names), n)
    ELSE <<names[1]>> \o WithoutName(Tail(names), n)

GroupGrantRole(gs, rs, groupname, rolename) ==
    IF groupname \notin DOMAIN gs THEN [err |-> ErrNoSuchGroup, groups |-> gs]
    ELSE IF rolename \notin DOMAIN rs THEN [err |-> ErrNoSuchRole, groups |-> gs]
    ELSE IF \E i \in 1..Len(gs[groupname].Roles) : gs[groupname].Roles[i] = rolename
         THEN [err |-> Nil, groups |-> gs]
         ELSE [err |-> Nil,
               groups |-> [gs EXCEPT ![groupname].Roles = Append(@, rolename)]]

GroupRevokeRole(gs, groupname, rolename) ==
    IF groupname \notin DOMAIN gs THEN [err |-> ErrNoSuchGroup, groups |-> gs]
    ELSE [err |-> Nil,
          groups |-> [gs EXCEPT ![groupname].Roles = WithoutName(@, rolename)]]

\* the roles of the names, each as da.roles holds it
RolesOf(rs, names) ==
    [i \in 1..Len(names) |->
        [Name |-> names[i], Permissions |-> rs[names[i]].Permissions]]

\* mutant: the roles are returned in the order they were granted in
GroupListRoles_GrantOrder(gs, rs, groupname) ==
    IF groupname \notin DOMAIN gs THEN [result |-> <<>>, err |-> ErrNoSuchGroup]
    ELSE [result |-> RolesOf(rs, gs[groupname].Roles), err |-> Nil]

GroupListRoles(gs, rs, groupname) ==
    IF groupname \notin DOMAIN gs THEN [result |-> <<>>, err |-> ErrNoSuchGroup]
    ELSE [result |-> RolesOf(rs, SortNames(gs[groupname].Roles)), err |-> Nil]

----------------------------------------------------------------------------
(* SpecGroupRole: roles are created and granted a permission, and granted   *)
(* to the group g, revoked from it and listed, each call atomic.            *)

GrantRoleNames == {SortedRoleNames[i] : i \in DOMAIN SortedRoleNames}
ListGroupNames == {"g", "h"}

\* glast before the first call: no role is held by a group
NoGroupCall == [called |-> FALSE, held |-> [g \in DOMAIN OneGroup |-> {}]]

InitGroupRole ==
    /\ TokensIdle
    /\ RuleIdle
    /\ ParseIdle
    /\ StrIdle
    /\ RolesIdle
    /\ groups = OneGroup
    /\ glast = NoGroupCall

\* the record of a call, with the groups and the roles it found; held is the
\* history of the roles granted to each group and not revoked since
GroupRoleCall(op, g, n, err, result, held) ==
    [called |-> TRUE, op |-> op, groupname |-> g, rolename |-> n, err |-> err,
     result |-> result, before |-> groups, roles |-> roles, held |-> held]

CallGroupGrantRole(g, n) ==
    LET r == GroupGrantRole(groups, roles, g, n)
    IN  /\ groups' = r.groups
        /\ glast' = GroupRoleCall("GroupGrantRole", g, n, r.err, <<>>,
                        IF r.err = Nil THEN [glast.held EXCEPT ![g] = @ \cup {n}]
                        ELSE glast.held)
        /\ GroupFrame

CallGroupRevokeRole(g, n) ==
    LET r == GroupRevokeRole(groups, g, n)
    IN  /\ groups' = r.groups
        /\ glast' = GroupRoleCall("GroupRevokeRole", g, n, r.err, <<>>,
                        IF r.err = Nil THEN [glast.held EXCEPT ![g] = @ \ {n}]
                        ELSE glast.held)
        /\ GroupFrame

CallGroupListRoles(g) ==
    LET r == GroupListRoles(groups, roles, g)
    IN  /\ glast' = GroupRoleCall("GroupListRoles", g, "", r.err, r.result, glast.held)
        /\ UNCHANGED groups
        /\ GroupFrame

NextGroupRole ==
    \/ \E n \in GrantRoleNames : CallRoleCreate(n)
    \/ \E n \in GrantRoleNames :
          /\ n \in DOMAIN roles
          /\ roles[n].Permissions = <<>>
          /\ CallRoleGrantPermission(n, <<"a">>, <<"b">>)
    \/ \E g \in ListGroupNames, n \in GrantRoleNames : CallGroupGrantRole(g, n)
    \/ \E g \in ListGroupNames, n \in GrantRoleNames : CallGroupRevokeRole(g, n)
    \/ \E g \in ListGroupNames : CallGroupListRoles(g)

SpecGroupRole == InitGroupRole /\ [][NextGroupRole]_vars

\* GroupListRoles has returned a list
ListedRoles == glast.called /\ glast.op = "GroupListRoles" /\ glast.err = Nil

\* C31: GroupListRoles of an existing group returns exactly the roles granted
\* to the group and not revoked since, each once, in ascending order of the
\* role names whatever the order of the grants, each with the permissions the
\* role has at the call; the list is empty when no role is held.
C31_GroupListRoles ==
    ListedRoles =>
        /\ {glast.result[i].Name : i \in 1..Len(glast.result)} = glast.held[glast.groupname]
        /\ Len(glast.result) = Cardinality(glast.held[glast.groupname])
        /\ \A i \in 1..Len(glast.result) - 1 :
              NameLess(glast.result[i].Name, glast.result[i + 1].Name)
        /\ \A i \in 1..Len(glast.result) :
              glast.result[i].Permissions = glast.roles[glast.result[i].Name].Permissions
        /\ glast.held[glast.groupname] = {} => glast.result = <<>>

\* two roles granted in descending order of their names have been listed,
\* one of them with a permission and one without
C31_Witness ==
    /\ ListedRoles
    /\ Len(glast.result) = 2
    /\ Len(glast.before[glast.groupname].Roles) = 2
    /\ NameLess(glast.before[glast.groupname].Roles[2], glast.before[glast.groupname].Roles[1])
    /\ \E i \in 1..2 : glast.result[i].Permissions # <<>>
    /\ \E i \in 1..2 : glast.result[i].Permissions = <<>>

====
